---- MODULE Spec2Model ----
(***************************************************************************)
(* Run detection, deduplication and command dispatch of the GitHub         *)
(* Actions monitor (github_actions_monitor.py).                            *)
(*                                                                         *)
(* Spec        : the sequential poll cycle of run() / _monitor_workflows   *)
(*               (monitoring.enable_parallel = false), one step per loop   *)
(*               iteration or per command.                                 *)
(* SpecDispatch: one call of _execute_commands, over a broad set of        *)
(*               execution maps, definitions and legacy lists.             *)
(* SpecFilter  : _get_new_successful_runs as a pure function over a broad  *)
(*               set of run lists, allow-lists and executed sets.          *)
(* SpecParallel: the parallel poll cycle of _monitor_workflows_parallel,   *)
(*               one _monitor_single_repository call per repository, with  *)
(*               the dispatch lock; SpecParallelFair adds weak fairness.   *)
(* SpecTimeout : the timeout of one command (_get_default_timeout and the  *)
(*               per-command override) over a set of command texts.        *)
(* SpecLoop    : the sequential cycle with the waits of run() followed     *)
(*               second by second, and the wait after a loop-body error.   *)
(* SpecMode    : the choice of run() between the two cycles, over          *)
(*               deployments with one or two repositories, parallelism on  *)
(*               or off and a pool of one or three threads.                *)
(* SpecCleanup : one pass of _cleanup_old_executed_runs over run keys as   *)
(*               texts, well-formed and not.                               *)
(* SpecPersist : _save_state, _load_state and the marking of a run over    *)
(*               the shapes of the state file.                             *)
(* SpecScan    : one parallel cycle in which the dispatch of a run may     *)
(*               raise before its command loop.                            *)
(* SpecEquiv   : one cycle on either path with the answers of the          *)
(*               environment fixed beforehand.                             *)
(*                                                                         *)
(* The Run Source lists every completed run of a workflow once, and a      *)
(* run's record does not change after its completion.                      *)
(***************************************************************************)
EXTENDS Integers, Sequences, FiniteSets, TLC

VARIABLES
    config,             \* self.config: commands.execution_map / definitions / on_success, monitoring.branches
    source,             \* Run Source: workflow id -> list of completed runs (workflow.get_runs)
    repos,              \* self.repos: the configured repositories, in order
    parallel_enabled,   \* self.parallel_enabled
    max_workers,        \* self.max_workers
    now,                \* _get_current_time(), in seconds
    running,            \* self.running
    executed_runs,      \* self.state_data['executed_runs']
    disk,               \* executed_runs as last written by _save_state
    last_cleanup,       \* run(): last_cleanup
    cycles,             \* number of poll cycles started
    pc,                 \* position in run() / _monitor_workflows / _execute_commands
    ri,                 \* index of the repository being scanned
    wi,                 \* index of the workflow being scanned
    new_runs,           \* _monitor_workflows: new_runs
    fetched,            \* the last workflow.get_runs call returned (did not raise)
    ni,                 \* index into new_runs
    commands_to_execute,\* _execute_commands: commands_to_execute
    ci,                 \* index into commands_to_execute
    commands_executed,  \* _execute_commands: commands_executed
    repo_commands,      \* _execute_commands: repo_commands (None is the empty list)
    ran,                \* history: the commands of the current dispatch that were run, with what the process did
    result,             \* last value returned by _execute_single_command
    raised,             \* an exception escaped _execute_single_command
    last_behaviour,     \* what the external process of the last command did
    dispatches,         \* history: RunKey -> number of dispatches that ran a command
    okSince,            \* history: keys with a dispatch that had an exit code 0, not evicted since
    evicted,            \* history: keys removed by a retention pass
    unresolved,         \* history: keys whose last dispatch resolved names but no definition
    last_dispatch,      \* history: outcome of the last finished _execute_commands call
    cmd_config,         \* _execute_commands: cmd_config, with the command text as a list of characters
    timeout,            \* _execute_commands: timeout
    saves,              \* history: number of _save_state calls of the current cycle
    workers,            \* repository -> position and locals of its _monitor_single_repository call
    lock,               \* holder of self._execution_lock
    completed_repos,    \* _monitor_workflows_parallel: completed_repos
    slept,              \* run(): seconds waited in the current wait
    late,               \* history: one-second wait steps begun with self.running = False
    stop_pc,            \* history: position of the loop when the shutdown flag was set
    stop_waiters,       \* history: the scanners blocked at the dispatch lock at that moment
    persisted,          \* history: the executed set handed to the first _save_state call
    observed,           \* history: the keys the filter returned, with the cycle of the first time
    answers             \* the environment's answers of a cycle when fixed beforehand, or NoAnswers

vars == <<config, source, repos, parallel_enabled, max_workers, now, running,
          executed_runs, disk, last_cleanup, cycles,
          pc, ri, wi, new_runs, fetched, ni, commands_to_execute, repo_commands, ci,
          commands_executed, ran, result, raised, last_behaviour, dispatches, okSince, evicted,
          unresolved, last_dispatch, cmd_config, timeout, saves, workers, lock,
          completed_repos, slept, late, stop_pc, stop_waiters, persisted,
          observed, answers>>

----------------------------------------------------------------------------
(* Bounds of the model *)

MaxCycles == 3          \* poll cycles explored
PollInterval == 200     \* monitoring.poll_interval of the explored configuration
StartTime == 3600       \* clock value of the first cycle
RunAge == 10            \* age of the runs of the main scenario at the first cycle
MaxRuns == 2            \* length of the run lists given to the filter on its own
ShortPollInterval == 3  \* monitoring.poll_interval where the wait is followed second by second
CleanupTime == 1000000  \* clock value at the retention pass explored on its own

(* Program constants *)

FreshnessWindow == 300
RetentionWindow == 604800
CleanupInterval == 3600

----------------------------------------------------------------------------
(* Values *)

NoTimestamp == -1           \* run.updated_at is None
NoBranch == "<None>"        \* run.head_branch is None
Wildcard == "*"

EmptyMap == [k \in {} |-> <<>>]

\* run key f"{repo_name}:{workflow.id}:{run.id}"
RunKey(repo_name, workflow_id, run_id) == <<repo_name, workflow_id, run_id>>

Repos == <<"org/repo", "other/repo">>

\* a deployment with a single repository
OneRepo == <<"org/repo">>

\* workflows_by_repo: the monitored workflows of each repository
WorkflowsOf(repo_name) ==
    IF repo_name = "org/repo" THEN <<11, 12>> ELSE <<21>>

RepoOfWorkflow(workflow_id) ==
    IF workflow_id \in {11, 12} THEN "org/repo" ELSE "other/repo"

AllWorkflows == {11, 12, 21}

----------------------------------------------------------------------------
(* Freshness filter: _get_new_successful_runs *)

\* run.conclusion == 'success'
IsSuccessful(run) == run.conclusion = "success"

\* faulty variant: the key is built with workflow id and run id swapped
AlreadyExecuted_SwappedKey(repo_name, workflow_id, run, executed) ==
    RunKey(repo_name, run.id, workflow_id) \in executed

\* faulty variant: the filter looks for the key in the state file, not in memory
AlreadyExecuted_FromDisk(repo_name, workflow_id, run, executed) ==
    RunKey(repo_name, workflow_id, run.id) \in disk

\* run_key in executed_runs
AlreadyExecuted(repo_name, workflow_id, run, executed) ==
    RunKey(repo_name, workflow_id, run.id) \in executed

\* _should_monitor_branch: an empty allow-list monitors all branches
ShouldMonitorBranch(cfg, branch) ==
    IF cfg.branches = {} THEN TRUE ELSE branch \in cfg.branches

\* faulty variant: '>=' instead of '>'
TooOld_OffByOne(run, current_time) ==
    /\ run.updated_at # NoTimestamp
    /\ current_time - run.updated_at >= FreshnessWindow

\* if run.updated_at: ... if time_diff.total_seconds() > 300: continue
TooOld(run, current_time) ==
    /\ run.updated_at # NoTimestamp
    /\ current_time - run.updated_at > FreshnessWindow

\* faulty variant: a run the filter has returned before is not returned again
KeepRun_OnlyUnseen(cfg, repo_name, workflow_id, run, current_time, executed) ==
    /\ IsSuccessful(run)
    /\ ~AlreadyExecuted(repo_name, workflow_id, run, executed)
    /\ ShouldMonitorBranch(cfg, run.head_branch)
    /\ ~TooOld(run, current_time)
    /\ ~\E o \in observed : o.key = RunKey(repo_name, workflow_id, run.id)

\* the body of the loop over successful_runs: TRUE when the run is appended
KeepRun(cfg, repo_name, workflow_id, run, current_time, executed) ==
    /\ IsSuccessful(run)
    /\ ~AlreadyExecuted(repo_name, workflow_id, run, executed)
    /\ ShouldMonitorBranch(cfg, run.head_branch)
    /\ ~TooOld(run, current_time)

\* _get_new_successful_runs; fetch_ok = FALSE when workflow.get_runs raises
GetNewSuccessfulRuns(cfg, repo_name, workflow_id, runs, current_time, executed, fetch_ok) ==
    IF ~fetch_ok THEN <<>>
    ELSE SelectSeq(runs, LAMBDA run :
            KeepRun(cfg, repo_name, workflow_id, run, current_time, executed))

\* faulty variant: the runs the filter drops are marked executed
ExecutedAfterFilter_MarksDropped(executed, repo_name, workflow_id, runs, kept) ==
    executed \cup { RunKey(repo_name, workflow_id, runs[i].id) :
                        i \in { j \in 1..Len(runs) :
                                  ~\E k \in 1..Len(kept) : kept[k] = runs[j] } }

\* self.state_data['executed_runs'] after _get_new_successful_runs: the function reads the
\* collection into a local ('run_key in executed_runs') and assigns nothing to it
ExecutedAfterFilter(executed, repo_name, workflow_id, runs, kept) == executed

----------------------------------------------------------------------------
(* Command resolution: the first half of _execute_commands *)

NoCommands == <<>>

\* bool(x) of a list that may be None: None is modelled by the flag found = FALSE
Lookup(found, names) == [found |-> found, names |-> names]
NotFoundYet == Lookup(FALSE, <<>>)

\* workflow_run.head_branch or 'unknown'
BranchName(run) == IF run.head_branch = NoBranch THEN "unknown" ELSE run.head_branch

\* execution_map[key]: branch_name first, then '*'
BranchLookup(branch_map, branch_name) ==
    IF branch_name \in DOMAIN branch_map THEN Lookup(TRUE, branch_map[branch_name])
    ELSE IF Wildcard \in DOMAIN branch_map THEN Lookup(TRUE, branch_map[Wildcard])
    ELSE NotFoundYet

\* 'not repo_commands': None or an empty list
IsFalsy(lookup) == ~lookup.found \/ lookup.names = <<>>

\* repo_commands after the repo-specific and the default lookup
ResolveNames(execution_map, repo_name, branch_name) ==
    LET specific == IF repo_name \in DOMAIN execution_map
                    THEN BranchLookup(execution_map[repo_name], branch_name)
                    ELSE NotFoundYet
        final == IF IsFalsy(specific) /\ Wildcard \in DOMAIN execution_map
                 THEN LET dflt == BranchLookup(execution_map[Wildcard], branch_name)
                      IN  IF dflt.found THEN dflt ELSE specific
                 ELSE specific
    IN  IF final.found THEN final.names ELSE NoCommands

\* names -> definitions; a name without a definition is logged and skipped
RECURSIVE ToDefinitions(_, _)
ToDefinitions(names, definitions) ==
    IF names = <<>> THEN <<>>
    ELSE LET rest == ToDefinitions(Tail(names), definitions)
         IN  IF Head(names) \in DOMAIN definitions
             THEN <<[name |-> Head(names), command |-> definitions[Head(names)]]>> \o rest
             ELSE rest

\* 'if execution_map:' a non-empty map selects the map mode
UseExecutionMap(cfg) == DOMAIN cfg.execution_map # {}

\* faulty variant: the legacy list is used when the map resolves to nothing
CommandsToExecute_LegacyFallback(cfg, repo_name, run) ==
    LET mapped == ToDefinitions(ResolveNames(cfg.execution_map, repo_name, BranchName(run)),
                                cfg.definitions)
    IN  IF UseExecutionMap(cfg) /\ mapped # <<>> THEN mapped ELSE cfg.on_success

\* commands_to_execute of _execute_commands
CommandsToExecute(cfg, repo_name, run) ==
    IF UseExecutionMap(cfg)
    THEN ToDefinitions(ResolveNames(cfg.execution_map, repo_name, BranchName(run)),
                       cfg.definitions)
    ELSE cfg.on_success

----------------------------------------------------------------------------
(* Command runner: _execute_single_command *)

\* what the external process does
ProcessBehaviours ==
    { [kind |-> "exit", returncode |-> 0, stdout |-> "out"],
      [kind |-> "exit", returncode |-> 1, stdout |-> "out"],
      [kind |-> "exit", returncode |-> 1, stdout |-> ""],
      [kind |-> "timeout", returncode |-> 0, stdout |-> "partial"],
      [kind |-> "timeout", returncode |-> 0, stdout |-> ""],
      [kind |-> "permission", returncode |-> 0, stdout |-> ""],
      [kind |-> "notfound", returncode |-> 0, stdout |-> ""],
      [kind |-> "error", returncode |-> 0, stdout |-> ""] }

NoBehaviour == [kind |-> "none", returncode |-> 0, stdout |-> ""]

\* the value the function hands back to its caller
NoneValue == [type |-> "None", returncode |-> 0, stdout |-> ""]
CompletedProcess(b) == [type |-> "CompletedProcess", returncode |-> b.returncode, stdout |-> b.stdout]
TimeoutResult(b) == [type |-> "TimeoutResult", returncode |-> -1, stdout |-> b.stdout]

\* faulty variant: no catch-all 'except Exception' clause
ExceptionEscapes_NoCatchAll(b) == b.kind = "error"

\* the except clauses of _execute_single_command: every exception is caught
ExceptionEscapes(b) == FALSE

\* faulty variant: the timeout handler returns None, as the permission handler does
ExecuteSingleCommand_TimeoutNone(b) ==
    IF b.kind = "exit" THEN CompletedProcess(b) ELSE NoneValue

\* faulty variant: subprocess.run(check=True), a non-zero exit raises and ends in None
ExecuteSingleCommand_CheckTrue(b) ==
    IF b.kind = "exit" /\ b.returncode = 0 THEN CompletedProcess(b)
    ELSE IF b.kind = "timeout" THEN TimeoutResult(b)
    ELSE NoneValue

\* return value per try/except branch
ExecuteSingleCommand(b) ==
    IF b.kind = "exit" THEN CompletedProcess(b)
    ELSE IF b.kind = "timeout" THEN TimeoutResult(b)
    ELSE NoneValue

\* faulty variant: 'if not result and ...'
CommandSucceeded_NotResult(res) == res.type = "None" /\ res.returncode = 0

\* 'if result and result.returncode == 0'
CommandSucceeded(res) == res.type # "None" /\ res.returncode = 0

\* faulty variant: the loop over the commands stops at the first command that failed
NextCommand_BreakOnFailure(i, commands, res) ==
    IF res.type # "None" /\ res.returncode = 0 THEN i + 1 ELSE Len(commands) + 1

\* 'for i, cmd_config in enumerate(commands_to_execute, 1)': no break, and the
\* 'except Exception' of the loop body is inside the loop
NextCommand(i, commands, res) == i + 1

\* faulty variant: the early return is missing
ReturnsEarly_Never(commands) == FALSE

\* 'if not commands_to_execute: ... return'
ReturnsEarly(commands) == commands = <<>>

\* faulty variant: 'and' instead of 'or'
ShouldMarkExecuted_And(executed_flag, commands) == executed_flag /\ commands = <<>>

\* 'if commands_executed or not commands_to_execute'
ShouldMarkExecuted(executed_flag, commands) == executed_flag \/ commands = <<>>

----------------------------------------------------------------------------
(* Command timeout: _get_default_timeout and the per-command override *)
(* A command text is a list of characters.                                 *)

UpperCase == <<"A", "B", "C", "D", "E", "F", "G", "H", "I", "J", "K", "L", "M",
               "N", "O", "P", "Q", "R", "S", "T", "U", "V", "W", "X", "Y", "Z">>
LowerCase == <<"a", "b", "c", "d", "e", "f", "g", "h", "i", "j", "k", "l", "m",
               "n", "o", "p", "q", "r", "s", "t", "u", "v", "w", "x", "y", "z">>

\* str.lower()
Lower(text) ==
    [i \in 1..Len(text) |->
        IF \E k \in 1..Len(UpperCase) : UpperCase[k] = text[i]
        THEN LowerCase[CHOOSE k \in 1..Len(UpperCase) : UpperCase[k] = text[i]]
        ELSE text[i]]

\* 'keyword in command_lower': substring test
Contains(text, keyword) ==
    \E i \in 1..(Len(text) - Len(keyword) + 1) :
        SubSeq(text, i, i + Len(keyword) - 1) = keyword

ContainsAny(text, keywords) == \E k \in keywords : Contains(text, k)

HttpKeywords == { <<"c", "u", "r", "l">>, <<"w", "g", "e", "t">>, <<"h", "t", "t", "p">> }
KubectlKeyword == <<"k", "u", "b", "e", "c", "t", "l">>
GitKeywords == { <<"g", "i", "t">>, <<"c", "l", "o", "n", "e">>, <<"p", "u", "l", "l">>,
                 <<"p", "u", "s", "h">> }
ContainerKeywords == { <<"d", "o", "c", "k", "e", "r">>, <<"p", "o", "d", "m", "a", "n">> }

\* _get_default_timeout: the first keyword group found in the text decides
GetDefaultTimeout(command) ==
    LET command_lower == Lower(command)
    IN  IF ContainsAny(command_lower, HttpKeywords) THEN 60
        ELSE IF Contains(command_lower, KubectlKeyword) THEN 120
        ELSE IF ContainsAny(command_lower, GitKeywords) THEN 180
        ELSE IF ContainsAny(command_lower, ContainerKeywords) THEN 300
        ELSE 120

\* cmd_config.get('timeout', self._get_default_timeout(command))
CommandTimeout(cmd) ==
    IF cmd.has_timeout THEN cmd.timeout ELSE GetDefaultTimeout(cmd.command)

\* command texts of the explored definitions:
\*   curl -X POST http://hook, wget http://host/file, kubectl apply -f app.yaml,
\*   kubectl rollout restart, git pull, git clone repo, docker build ., docker pull img,
\*   docker push img, podman run img, podman pull img, DOCKER BUILD ., make install,
\*   echo deployed, ./deploy.sh
TimeoutCommandTexts ==
    { <<"c", "u", "r", "l", " ", "-", "X", " ", "P", "O", "S", "T", " ", "h", "t", "t", "p", ":", "/", "/", "h", "o", "o", "k">>,
      <<"w", "g", "e", "t", " ", "h", "t", "t", "p", ":", "/", "/", "h", "o", "s", "t", "/", "f", "i", "l", "e">>,
      <<"k", "u", "b", "e", "c", "t", "l", " ", "a", "p", "p", "l", "y", " ", "-", "f", " ", "a", "p", "p", ".", "y", "a", "m", "l">>,
      <<"k", "u", "b", "e", "c", "t", "l", " ", "r", "o", "l", "l", "o", "u", "t", " ", "r", "e", "s", "t", "a", "r", "t">>,
      <<"g", "i", "t", " ", "p", "u", "l", "l">>,
      <<"g", "i", "t", " ", "c", "l", "o", "n", "e", " ", "r", "e", "p", "o">>,
      <<"d", "o", "c", "k", "e", "r", " ", "b", "u", "i", "l", "d", " ", ".">>,
      <<"d", "o", "c", "k", "e", "r", " ", "p", "u", "l", "l", " ", "i", "m", "g">>,
      <<"d", "o", "c", "k", "e", "r", " ", "p", "u", "s", "h", " ", "i", "m", "g">>,
      <<"p", "o", "d", "m", "a", "n", " ", "r", "u", "n", " ", "i", "m", "g">>,
      <<"p", "o", "d", "m", "a", "n", " ", "p", "u", "l", "l", " ", "i", "m", "g">>,
      <<"D", "O", "C", "K", "E", "R", " ", "B", "U", "I", "L", "D", " ", ".">>,
      <<"m", "a", "k", "e", " ", "i", "n", "s", "t", "a", "l", "l">>,
      <<"e", "c", "h", "o", " ", "d", "e", "p", "l", "o", "y", "e", "d">>,
      <<".", "/", "d", "e", "p", "l", "o", "y", ".", "s", "h">> }

\* definitions without and with a 'timeout' key
TimeoutCommands ==
    { [name |-> "cmd", command |-> t, has_timeout |-> FALSE, timeout |-> 0] :
            t \in TimeoutCommandTexts }
    \cup { [name |-> "cmd", command |-> t, has_timeout |-> TRUE, timeout |-> o] :
            t \in TimeoutCommandTexts, o \in {30, 45, 600} }

----------------------------------------------------------------------------
(* Configurations and run lists of the poll-cycle specification *)

Run(id, conclusion, branch, updated_at) ==
    [id |-> id, conclusion |-> conclusion, head_branch |-> branch, updated_at |-> updated_at]

Config(execution_map, definitions, on_success, branches) ==
    [execution_map |-> execution_map, definitions |-> definitions,
     on_success |-> on_success, branches |-> branches]

Definitions == [n \in {"deploy", "notify", "blank"} |->
                    IF n = "deploy" THEN "echo deployed"
                    ELSE IF n = "notify" THEN "curl http://hook" ELSE ""]

LegacyCommands == <<[name |-> "legacy", command |-> "make install"]>>

\* exact entry for org/repo:main, wildcard entry naming a command without definition
MapExactAndGhost ==
    [r \in {"org/repo", Wildcard} |->
        IF r = "org/repo" THEN [b \in {"main"} |-> <<"blank", "deploy", "notify">>]
        ELSE [b \in {Wildcard} |-> <<"ghost">>]]

\* exact entry only: every other repository/branch has no commands configured
MapExactOnly == [r \in {"org/repo"} |-> [b \in {"main"} |-> <<"deploy">>]]

\* an empty list for org/repo:main above a wildcard entry
MapEmptyEntry ==
    [r \in {"org/repo", Wildcard} |->
        IF r = "org/repo" THEN [b \in {"main"} |-> <<>>]
        ELSE [b \in {Wildcard} |-> <<"deploy">>]]

MainConfigs ==
    { Config(m[1], Definitions, m[2], br) :
        m \in { <<MapExactAndGhost, <<>> >>,
                <<MapExactOnly, LegacyCommands>>,
                <<MapEmptyEntry, <<>> >>,
                <<EmptyMap, LegacyCommands>> },
        br \in { {}, {"main"} } }

\* runs completed RunAge seconds before the first cycle
MainSource ==
    [w \in AllWorkflows |->
        IF w = 11 THEN << Run(101, "success", "main", StartTime - RunAge),
                          Run(102, "success", "dev", StartTime - RunAge) >>
        ELSE IF w = 12 THEN << Run(103, "failure", "main", StartTime - RunAge) >>
        ELSE << Run(201, "success", "main", StartTime - RunAge) >>]

AllKeys(src) ==
    UNION { { RunKey(RepoOfWorkflow(w), w, src[w][i].id) : i \in 1..Len(src[w]) } : w \in DOMAIN src }

\* repo.get_workflow_run(run_id) of the retention pass
RunOfKey(src, key) ==
    LET runs == src[key[2]]
    IN  runs[CHOOSE i \in 1..Len(runs) : runs[i].id = key[3]]

NoDispatch == [key |-> <<>>, configured |-> 0, resolved |-> 0, ran |-> <<>>, done |-> FALSE]

----------------------------------------------------------------------------
(* The sequential poll cycle: run() and _monitor_workflows *)

\* history: the keys of runs are recorded with the cycle in which the filter first
\* returned them
Observe(seen, runs, repo_name, workflow_id, cycle) ==
    seen \cup { [key |-> RunKey(repo_name, workflow_id, runs[i].id), cycle |-> cycle] :
                    i \in { j \in 1..Len(runs) :
                            ~\E o \in seen : o.key = RunKey(repo_name, workflow_id, runs[j].id) } }

CurRepo == repos[ri]
CurWorkflow == WorkflowsOf(CurRepo)[wi]
CurRun == new_runs[ni]
CurKey == RunKey(CurRepo, CurWorkflow, CurRun.id)

\* repo_commands of _execute_commands (stays None, here <<>>, in the legacy mode)
RepoCommands(cfg, repo_name, run) ==
    IF UseExecutionMap(cfg)
    THEN ResolveNames(cfg.execution_map, repo_name, BranchName(run))
    ELSE <<>>

\* number of commands the configuration names for a run, before definitions are looked up
ConfiguredFor(cfg, repo_name, run) ==
    IF UseExecutionMap(cfg)
    THEN Len(RepoCommands(cfg, repo_name, run))
    ELSE Len(cfg.on_success)

\* history: some command of the dispatch ended with exit code 0
SomeExitZero(commands_run) ==
    \E i \in 1..Len(commands_run) :
        commands_run[i].kind = "exit" /\ commands_run[i].returncode = 0

scanVars == <<ri, wi, new_runs, fetched, ni>>
execVars == <<commands_to_execute, repo_commands, ci, commands_executed, ran, result, raised,
              last_behaviour>>
histVars == <<dispatches, okSince, evicted, unresolved, last_dispatch>>
envVars == <<config, source, repos, parallel_enabled, max_workers, answers>>
timeoutVars == <<cmd_config, timeout>>
parVars == <<workers, lock, completed_repos>>
stopVars == <<stop_pc, stop_waiters>>
auxVars == <<persisted, observed>>
waitVars == <<slept, late, stopVars>>

\* the shutdown flag has not been set
NotStopped == "<running>"

\* the lock is free
NoHolder == "<free>"

\* faulty variant: the lock is taken without waiting for its holder
LockFree_Always(holder) == TRUE

\* threading.Lock.acquire: blocks while another thread holds the lock
LockFree(holder) == holder = NoHolder

NoCommand == [name |-> "", command |-> <<>>, has_timeout |-> FALSE, timeout |-> 0]

\* no call of _monitor_single_repository for the repository in this cycle
IdleWorker ==
    [pc |-> "idle", wi |-> 1, new_runs |-> <<>>, ni |-> 1, commands_to_execute |-> <<>>,
     ci |-> 1, commands_executed |-> FALSE, ran |-> <<>>, returned |-> TRUE]

RepoSet == { Repos[i] : i \in 1..Len(Repos) }

\* the keys of self.repos
Configured == { repos[i] : i \in 1..Len(repos) }

\* self.max_workers, default of monitoring.max_parallel_workers
MaxWorkers == 3

\* faulty variant: the number of repositories is not looked at
UseParallel_IgnoreRepoCount == parallel_enabled

\* run(): 'if self.parallel_enabled and len(self.repos) > 1'
UseParallel == parallel_enabled /\ Len(repos) > 1

\* monitoring.enable_parallel: false, two repositories
InitSequential ==
    /\ repos = Repos
    /\ parallel_enabled = FALSE
    /\ max_workers = MaxWorkers

\* monitoring.enable_parallel and max_parallel_workers at their defaults, two repositories
InitPool ==
    /\ repos = Repos
    /\ parallel_enabled = TRUE
    /\ max_workers = MaxWorkers

InitNoCommand ==
    /\ cmd_config = NoCommand
    /\ timeout = 0

InitNoWorkers ==
    /\ saves = 0
    /\ workers = [r \in RepoSet |-> IdleWorker]
    /\ lock = NoHolder
    /\ completed_repos = <<>>

InitNoWait ==
    /\ slept = 0
    /\ late = 0
    /\ stop_pc = NotStopped
    /\ stop_waiters = {}

InitNoHistory ==
    /\ persisted = {}
    /\ observed = {}

\* the environment answers step by step
NoAnswers == [kind |-> "none"]

InitNoAnswers == answers = NoAnswers

InitExtra == InitNoCommand /\ InitNoWorkers /\ InitNoWait /\ InitNoHistory /\ InitNoAnswers

InitCommon ==
    /\ now = StartTime
    /\ running = TRUE
    /\ executed_runs = {}
    /\ disk = {}
    /\ last_cleanup = 0
    /\ cycles = 0
    /\ ri = 1
    /\ wi = 1
    /\ new_runs = <<>>
    /\ fetched = FALSE
    /\ ni = 1
    /\ commands_to_execute = <<>>
    /\ repo_commands = <<>>
    /\ ci = 1
    /\ commands_executed = FALSE
    /\ ran = <<>>
    /\ result = NoneValue
    /\ raised = FALSE
    /\ last_behaviour = NoBehaviour
    /\ okSince = {}
    /\ evicted = {}
    /\ unresolved = {}
    /\ last_dispatch = NoDispatch
    /\ InitExtra

Init ==
    /\ config \in MainConfigs
    /\ source = MainSource
    /\ dispatches = [k \in AllKeys(MainSource) |-> 0]
    /\ pc = "loop"
    /\ InitCommon
    /\ InitSequential

\* run(): 'while self.running', start of a cycle
LoopCheck ==
    /\ pc = "loop"
    /\ IF running
       THEN /\ ~UseParallel
            /\ cycles < MaxCycles
            /\ cycles' = cycles + 1
            /\ pc' = "repo"
            /\ ri' = 1
       ELSE /\ pc' = "stopped"
            /\ UNCHANGED <<cycles, ri>>
    /\ last_dispatch' = NoDispatch
    /\ saves' = 0
    /\ UNCHANGED <<envVars, auxVars, timeoutVars, parVars, waitVars,
                   now, running, executed_runs, disk, last_cleanup,
                   wi, new_runs, fetched, ni, execVars,
                   dispatches, okSince, evicted, unresolved>>

\* _monitor_workflows: 'for repo_name, workflows in workflows_by_repo.items()'
NextRepo ==
    /\ pc = "repo"
    /\ IF ri <= Len(repos) /\ running
       THEN /\ pc' = "workflow"
            /\ wi' = 1
       ELSE /\ pc' = "save"
            /\ UNCHANGED wi
    /\ UNCHANGED <<envVars, auxVars, timeoutVars, parVars, waitVars, saves,
                   now, running, executed_runs, disk, last_cleanup, cycles,
                   ri, new_runs, fetched, ni, execVars, histVars>>

\* _monitor_workflows: 'for workflow in workflows' and _get_new_successful_runs
NextWorkflow ==
    /\ pc = "workflow"
    /\ IF wi <= Len(WorkflowsOf(CurRepo)) /\ running
       THEN \E fetch_ok \in BOOLEAN :
            /\ new_runs' = GetNewSuccessfulRuns(config, CurRepo, CurWorkflow,
                                source[CurWorkflow], now, executed_runs, fetch_ok)
            /\ fetched' = fetch_ok
            /\ ni' = 1
            /\ pc' = "run"
            /\ observed' = Observe(observed, new_runs', CurRepo, CurWorkflow, cycles)
            /\ executed_runs' = ExecutedAfterFilter(executed_runs, CurRepo, CurWorkflow,
                                                    source[CurWorkflow], new_runs')
            /\ UNCHANGED ri
       ELSE /\ pc' = "repo"
            /\ ri' = ri + 1
            /\ UNCHANGED <<new_runs, fetched, ni, observed, executed_runs>>
    /\ UNCHANGED <<envVars, persisted, timeoutVars, parVars, waitVars, saves,
                   now, running, disk, last_cleanup, cycles,
                   wi, execVars, histVars>>

\* _monitor_workflows: 'for run in new_runs' and the resolution part of _execute_commands
NextRun ==
    /\ pc = "run"
    /\ IF ni <= Len(new_runs) /\ running
       THEN LET cmds == CommandsToExecute(config, CurRepo, CurRun)
                configured == ConfiguredFor(config, CurRepo, CurRun)
            IN  IF ReturnsEarly(cmds)
                THEN /\ last_dispatch' = [key |-> CurKey, configured |-> configured,
                                          resolved |-> Len(cmds), ran |-> <<>>, done |-> TRUE]
                     /\ unresolved' = IF configured > 0 THEN unresolved \cup {CurKey}
                                      ELSE unresolved \ {CurKey}
                     /\ repo_commands' = RepoCommands(config, CurRepo, CurRun)
                     /\ ni' = ni + 1
                     /\ pc' = "run"
                     /\ UNCHANGED <<wi, commands_to_execute, ci, commands_executed, ran>>
                ELSE /\ commands_to_execute' = cmds
                     /\ repo_commands' = RepoCommands(config, CurRepo, CurRun)
                     /\ ci' = 1
                     /\ commands_executed' = FALSE
                     /\ ran' = <<>>
                     /\ pc' = "exec"
                     /\ last_dispatch' = NoDispatch
                     /\ UNCHANGED <<wi, ni, unresolved>>
       ELSE /\ pc' = "workflow"
            /\ wi' = wi + 1
            /\ UNCHANGED <<ni, commands_to_execute, repo_commands, ci, commands_executed,
                           ran, unresolved, last_dispatch>>
    /\ UNCHANGED <<envVars, auxVars, timeoutVars, parVars, waitVars, saves,
                   now, running, executed_runs, disk, last_cleanup, cycles,
                   ri, new_runs, fetched, result, raised, last_behaviour,
                   dispatches, okSince, evicted>>

\* _execute_commands: one iteration of 'for i, cmd_config in enumerate(commands_to_execute, 1)'
ExecCommand ==
    /\ pc = "exec"
    /\ ci <= Len(commands_to_execute)
    /\ IF commands_to_execute[ci].command = ""
       THEN \* 'if not command: continue'
            /\ ci' = ci + 1
            /\ UNCHANGED <<commands_executed, ran, result, raised, last_behaviour, dispatches>>
       ELSE \E b \in ProcessBehaviours :
            /\ ci' = NextCommand(ci, commands_to_execute, ExecuteSingleCommand(b))
            /\ last_behaviour' = b
            /\ result' = ExecuteSingleCommand(b)
            /\ raised' = ExceptionEscapes(b)
            /\ commands_executed' =
                    (commands_executed \/ (~ExceptionEscapes(b) /\ CommandSucceeded(ExecuteSingleCommand(b))))
            /\ ran' = Append(ran, [name |-> commands_to_execute[ci].name,
                                    kind |-> b.kind, returncode |-> b.returncode,
                                    value |-> ExecuteSingleCommand(b)])
            /\ dispatches' = IF ran = <<>>
                             THEN [dispatches EXCEPT ![CurKey] = @ + 1]
                             ELSE dispatches
    /\ UNCHANGED <<envVars, auxVars, timeoutVars, parVars, waitVars, saves,
                   now, running, executed_runs, disk, last_cleanup, cycles,
                   pc, scanVars, commands_to_execute, repo_commands,
                   okSince, evicted, unresolved, last_dispatch>>

\* _execute_commands: after the loop, 'Mark this run as executed', and return
FinishCommands ==
    /\ pc = "exec"
    /\ ci > Len(commands_to_execute)
    /\ executed_runs' = IF ShouldMarkExecuted(commands_executed, commands_to_execute)
                        THEN executed_runs \cup {CurKey}
                        ELSE executed_runs
    /\ okSince' = IF SomeExitZero(ran) THEN okSince \cup {CurKey} ELSE okSince
    /\ unresolved' = IF commands_to_execute = <<>> /\ repo_commands # <<>>
                     THEN unresolved \cup {CurKey}
                     ELSE unresolved \ {CurKey}
    /\ last_dispatch' = [key |-> CurKey,
                         configured |-> ConfiguredFor(config, CurRepo, CurRun),
                         resolved |-> Len(commands_to_execute), ran |-> ran, done |-> TRUE]
    /\ commands_to_execute' = <<>>
    /\ ci' = 1
    /\ commands_executed' = FALSE
    /\ ran' = <<>>
    /\ result' = NoneValue
    /\ raised' = FALSE
    /\ last_behaviour' = NoBehaviour
    /\ ni' = ni + 1
    /\ pc' = "run"
    /\ UNCHANGED <<envVars, auxVars, timeoutVars, parVars, waitVars, saves,
                   now, running, disk, last_cleanup, cycles,
                   ri, wi, new_runs, fetched, repo_commands, dispatches, evicted>>

\* _save_state at the end of _monitor_workflows; write_ok = FALSE when the write raises
SaveState ==
    /\ pc = "save"
    /\ \E write_ok \in BOOLEAN :
            disk' = IF write_ok THEN executed_runs ELSE disk
    /\ pc' = "cleanup"
    /\ saves' = saves + 1
    /\ UNCHANGED <<envVars, auxVars, timeoutVars, parVars, waitVars,
                   now, running, executed_runs, last_cleanup, cycles,
                   scanVars, execVars, histVars>>

\* keys a retention pass removes; failed = the keys whose get_workflow_run raises
RunsToRemove(src, executed, current_time, failed) ==
    { k \in executed :
        \/ k \in failed
        \/ LET run == RunOfKey(src, k)
           IN  /\ run.updated_at # NoTimestamp
               /\ current_time - run.updated_at > RetentionWindow }

\* run(): the hourly _cleanup_old_executed_runs
Cleanup ==
    /\ pc = "cleanup"
    /\ IF now - last_cleanup >= CleanupInterval
       THEN \E failed \in SUBSET executed_runs :
            LET gone == RunsToRemove(source, executed_runs, now, failed)
            IN  /\ executed_runs' = executed_runs \ gone
                /\ evicted' = evicted \cup gone
                /\ okSince' = okSince \ gone
                /\ last_cleanup' = now
       ELSE UNCHANGED <<executed_runs, evicted, okSince, last_cleanup>>
    /\ pc' = "sleep"
    /\ UNCHANGED <<envVars, auxVars, timeoutVars, parVars, waitVars, saves,
                   now, running, disk, cycles, scanVars, execVars,
                   dispatches, unresolved, last_dispatch>>

\* run(): 'for _ in range(poll_interval): if not self.running: break; time.sleep(1)'
Sleep ==
    /\ pc = "sleep"
    /\ now' = IF running THEN now + PollInterval ELSE now
    /\ pc' = "loop"
    /\ UNCHANGED <<envVars, auxVars, timeoutVars, parVars, waitVars, saves,
                   running, executed_runs, disk, last_cleanup, cycles,
                   scanVars, execVars, histVars>>

\* _signal_handler
Signal ==
    /\ running
    /\ pc # "stopped"
    /\ running' = FALSE
    /\ stop_pc' = pc
    /\ stop_waiters' = { r \in RepoSet : workers[r].pc = "lock" /\ ~LockFree(lock) }
    /\ UNCHANGED <<envVars, auxVars, timeoutVars, parVars, slept, late, saves,
                   now, executed_runs, disk, last_cleanup, cycles, pc,
                   scanVars, execVars, histVars>>

Next ==
    \/ LoopCheck
    \/ NextRepo
    \/ NextWorkflow
    \/ NextRun
    \/ ExecCommand
    \/ FinishCommands
    \/ SaveState
    \/ Cleanup
    \/ Sleep
    \/ Signal

Spec == Init /\ [][Next]_vars

----------------------------------------------------------------------------
(* One dispatch (_execute_commands) over a broad set of configurations *)

PartialFunctions(keys, values) == UNION { [d -> values] : d \in SUBSET keys }

NameLists == { <<>>, <<"a">>, <<"b">> }
BranchMaps == PartialFunctions({"main", Wildcard}, NameLists)
ExecutionMaps == PartialFunctions({"org/repo", Wildcard}, BranchMaps)

DefinitionsAB == [n \in {"a", "b"} |-> IF n = "a" THEN "echo a" ELSE "echo b"]
DefinitionsA == [n \in {"a"} |-> "echo a"]

DispatchConfigs ==
    { Config(m, d, l, {}) :
        m \in ExecutionMaps, d \in {DefinitionsAB, DefinitionsA},
        l \in { <<>>, LegacyCommands } }

DispatchRuns == { Run(101, "success", b, NoTimestamp) : b \in {"main", "dev", NoBranch} }

InitDispatch ==
    /\ config \in DispatchConfigs
    /\ \E r \in DispatchRuns :
        /\ source = [w \in AllWorkflows |-> <<r>>]
        /\ dispatches = [k \in AllKeys([w \in AllWorkflows |-> <<r>>]) |-> 0]
        /\ new_runs = <<r>>
    /\ ri \in 1..Len(Repos)
    /\ pc = "run"
    /\ now = StartTime
    /\ running = TRUE
    /\ executed_runs = {}
    /\ disk = {}
    /\ last_cleanup = 0
    /\ cycles = 0
    /\ wi = 1
    /\ fetched = TRUE
    /\ ni = 1
    /\ commands_to_execute = <<>>
    /\ repo_commands = <<>>
    /\ ci = 1
    /\ commands_executed = FALSE
    /\ ran = <<>>
    /\ result = NoneValue
    /\ raised = FALSE
    /\ last_behaviour = NoBehaviour
    /\ okSince = {}
    /\ evicted = {}
    /\ unresolved = {}
    /\ last_dispatch = NoDispatch
    /\ InitExtra
    /\ InitSequential

NextDispatch ==
    \/ /\ pc = "run"
       /\ ni <= Len(new_runs)
       /\ NextRun
    \/ ExecCommand
    \/ FinishCommands

SpecDispatch == InitDispatch /\ [][NextDispatch]_vars

----------------------------------------------------------------------------
(* The freshness filter (_get_new_successful_runs) over a broad set of inputs *)

FilterBranches == {"main", "dev", NoBranch}
FilterTimestamps ==
    { NoTimestamp, StartTime - (FreshnessWindow - 1), StartTime - FreshnessWindow,
      StartTime - (FreshnessWindow + 1) }

FilterRunsWithId(id) ==
    { Run(id, c, b, t) : c \in {"success", "failure"}, b \in FilterBranches,
                         t \in FilterTimestamps }

\* run lists of up to MaxRuns runs with the distinct ids 1, 2, ...
FilterRunLists ==
    UNION { { rs \in [1..n -> UNION { FilterRunsWithId(id) : id \in 1..n }] :
                \A i \in 1..n : rs[i].id = i } : n \in 0..MaxRuns }

FilterKeys == { RunKey("org/repo", 11, id) : id \in 1..MaxRuns }

InitFilter ==
    /\ config \in { Config(EmptyMap, Definitions, <<>>, br) : br \in { {}, {"main"} } }
    /\ \E rs \in FilterRunLists :
        /\ source = [w \in AllWorkflows |-> IF w = 11 THEN rs ELSE <<>>]
        /\ dispatches = [k \in FilterKeys |-> 0]
    /\ pc = "filter"
    /\ now = StartTime
    /\ running = TRUE
    /\ executed_runs \in SUBSET FilterKeys
    /\ disk = {}
    /\ last_cleanup = 0
    /\ cycles = 0
    /\ ri = 1
    /\ wi = 1
    /\ new_runs = <<>>
    /\ fetched = FALSE
    /\ ni = 1
    /\ commands_to_execute = <<>>
    /\ repo_commands = <<>>
    /\ ci = 1
    /\ commands_executed = FALSE
    /\ ran = <<>>
    /\ result = NoneValue
    /\ raised = FALSE
    /\ last_behaviour = NoBehaviour
    /\ okSince = {}
    /\ evicted = {}
    /\ unresolved = {}
    /\ last_dispatch = NoDispatch
    /\ InitExtra
    /\ InitSequential

\* one call of _get_new_successful_runs(repo_name, workflow)
FilterCall ==
    /\ pc = "filter"
    /\ \E fetch_ok \in BOOLEAN :
        /\ new_runs' = GetNewSuccessfulRuns(config, CurRepo, CurWorkflow,
                            source[CurWorkflow], now, executed_runs, fetch_ok)
        /\ fetched' = fetch_ok
    /\ pc' = "filtered"
    /\ observed' = Observe(observed, new_runs', CurRepo, CurWorkflow, cycles)
    /\ executed_runs' = ExecutedAfterFilter(executed_runs, CurRepo, CurWorkflow,
                                            source[CurWorkflow], new_runs')
    /\ UNCHANGED <<envVars, persisted, timeoutVars, parVars, waitVars, saves,
                   now, running, disk, last_cleanup, cycles,
                   ri, wi, ni, execVars, histVars>>

NextFilter == FilterCall

SpecFilter == InitFilter /\ [][NextFilter]_vars

----------------------------------------------------------------------------
(* The parallel poll cycle: _monitor_workflows_parallel, with one call of    *)
(* _monitor_single_repository per repository on the thread pool              *)
(* (monitoring.enable_parallel = true and more than one repository).         *)


\* runs of the thread pool: calls that were started and have not returned
Active == { r \in RepoSet : workers[r].pc \notin {"idle", "queued", "done"} }

Returned == { r \in RepoSet : workers[r].pc = "done" }

Collected == { completed_repos[i] : i \in 1..Len(completed_repos) }

WorkerWorkflow(r) == WorkflowsOf(r)[workers[r].wi]
WorkerRun(r) == workers[r].new_runs[workers[r].ni]
WorkerKey(r) == RunKey(r, WorkerWorkflow(r), WorkerRun(r).id)

\* the worker is inside 'with self._execution_lock: self._execute_commands(...)'
InDispatch(r) == workers[r].pc \in {"resolve", "exec"}

\* faulty variant: the lock covers the resolution only, not the commands
HolderWhileCommandsRun_Released(r) == NoHolder

\* the 'with' block spans the whole _execute_commands call: the lock stays with the
\* worker while its commands run
HolderWhileCommandsRun(r) == r

\* 'result = future.result(...); completed_repos.append(repo_name)': the value the
\* call returned is not looked at
CountsAsCompleted(returned) == TRUE

\* the legacy list for the runs of branch main: one run of each repository is dispatched
ParallelConfigs == { Config(EmptyMap, Definitions, LegacyCommands, {"main"}) }

InitParallel ==
    /\ config \in ParallelConfigs
    /\ source = MainSource
    /\ dispatches = [k \in AllKeys(MainSource) |-> 0]
    /\ pc = "loop"
    /\ InitCommon
    /\ InitPool

\* run(): 'while self.running' and _monitor_workflows_parallel up to the submission of
\* one future per repository
StartParallelCycle ==
    /\ pc = "loop"
    /\ IF running
       THEN /\ UseParallel
            /\ cycles < MaxCycles
            /\ cycles' = cycles + 1
            /\ workers' = [r \in RepoSet |-> IF r \in Configured
                                              THEN [IdleWorker EXCEPT !.pc = "queued"]
                                              ELSE IdleWorker]
            /\ completed_repos' = <<>>
            /\ pc' = "as_completed"
       ELSE /\ pc' = "stopped"
            /\ UNCHANGED <<cycles, workers, completed_repos>>
    /\ saves' = 0
    /\ UNCHANGED <<envVars, auxVars, timeoutVars, waitVars, lock,
                   now, running, executed_runs, disk, last_cleanup,
                   scanVars, execVars, histVars>>

\* the pool starts a submitted call when fewer than max_workers calls are running
WorkerStart(r) ==
    /\ workers[r].pc = "queued"
    /\ Cardinality(Active) < max_workers
    /\ workers' = [workers EXCEPT ![r].pc = "workflow", ![r].wi = 1]
    /\ UNCHANGED <<envVars, auxVars, timeoutVars, waitVars, saves, lock, completed_repos,
                   now, running, executed_runs, disk, last_cleanup, cycles, pc,
                   scanVars, execVars, histVars>>

\* _monitor_single_repository: 'for workflow in workflows' and _get_new_successful_runs;
\* after the loop 'return True'
WorkerNextWorkflow(r) ==
    /\ workers[r].pc = "workflow"
    /\ IF workers[r].wi <= Len(WorkflowsOf(r)) /\ running
       THEN \E fetch_ok \in BOOLEAN :
            workers' = [workers EXCEPT
                ![r].new_runs = GetNewSuccessfulRuns(config, r, WorkerWorkflow(r),
                                    source[WorkerWorkflow(r)], now, executed_runs, fetch_ok),
                ![r].ni = 1,
                ![r].pc = "run"]
       ELSE workers' = [workers EXCEPT ![r].pc = "done", ![r].returned = TRUE]
    /\ observed' = IF workers'[r].pc = "run"
                   THEN Observe(observed, workers'[r].new_runs, r, WorkerWorkflow(r), cycles)
                   ELSE observed
    /\ executed_runs' = IF workers'[r].pc = "run"
                        THEN ExecutedAfterFilter(executed_runs, r, WorkerWorkflow(r),
                                 source[WorkerWorkflow(r)], workers'[r].new_runs)
                        ELSE executed_runs
    /\ UNCHANGED <<envVars, persisted, timeoutVars, waitVars, saves, lock, completed_repos,
                   now, running, disk, last_cleanup, cycles, pc,
                   scanVars, execVars, histVars>>

\* _monitor_single_repository: 'for run in new_runs', up to the 'with' statement
WorkerNextRun(r) ==
    /\ workers[r].pc = "run"
    /\ IF workers[r].ni <= Len(workers[r].new_runs) /\ running
       THEN workers' = [workers EXCEPT ![r].pc = "lock"]
       ELSE workers' = [workers EXCEPT ![r].pc = "workflow", ![r].wi = @ + 1]
    /\ UNCHANGED <<envVars, auxVars, timeoutVars, waitVars, saves, lock, completed_repos,
                   now, running, executed_runs, disk, last_cleanup, cycles, pc,
                   scanVars, execVars, histVars>>

\* 'with self._execution_lock:' the lock is acquired
WorkerAcquire(r) ==
    /\ workers[r].pc = "lock"
    /\ LockFree(lock)
    /\ lock' = r
    /\ workers' = [workers EXCEPT ![r].pc = "resolve"]
    /\ UNCHANGED <<envVars, auxVars, timeoutVars, waitVars, saves, completed_repos,
                   now, running, executed_runs, disk, last_cleanup, cycles, pc,
                   scanVars, execVars, histVars>>

\* _execute_commands under the lock: resolution, and the early return (end of the 'with')
WorkerResolve(r) ==
    /\ workers[r].pc = "resolve"
    /\ LET cmds == CommandsToExecute(config, r, WorkerRun(r))
       IN  IF ReturnsEarly(cmds)
           THEN /\ workers' = [workers EXCEPT ![r].ni = @ + 1, ![r].pc = "run"]
                /\ lock' = NoHolder
                /\ unresolved' = IF ConfiguredFor(config, r, WorkerRun(r)) > 0
                                 THEN unresolved \cup {WorkerKey(r)}
                                 ELSE unresolved \ {WorkerKey(r)}
           ELSE /\ workers' = [workers EXCEPT
                        ![r].commands_to_execute = cmds,
                        ![r].ci = 1,
                        ![r].commands_executed = FALSE,
                        ![r].ran = <<>>,
                        ![r].pc = "exec"]
                /\ lock' = HolderWhileCommandsRun(r)
                /\ UNCHANGED unresolved
    /\ UNCHANGED <<envVars, auxVars, timeoutVars, waitVars, saves, completed_repos,
                   now, running, executed_runs, disk, last_cleanup, cycles, pc,
                   scanVars, execVars, dispatches, okSince, evicted, last_dispatch>>

\* faulty variant: 'break' instead of going on with the next workflow
NextAfterPipelineError_SkipsRest(wi_now, count) == count + 1

\* the 'except Exception' inside 'for workflow in workflows': the loop goes on with the
\* next workflow
NextAfterPipelineError(wi_now, count) == wi_now + 1

\* _execute_commands raises before its command loop (the resolution or
\* _prepare_command_environment): the 'with' block releases the lock and the
\* per-workflow 'except Exception' logs; the remaining runs of the workflow are skipped
\* (the locals new_runs and run are not read again before they are rebound)
WorkerDispatchError(r) ==
    /\ workers[r].pc = "resolve"
    /\ lock' = NoHolder
    /\ workers' = [workers EXCEPT
            ![r].pc = "workflow",
            ![r].new_runs = <<>>,
            ![r].ni = 1,
            ![r].wi = NextAfterPipelineError(@, Len(WorkflowsOf(r)))]
    /\ UNCHANGED <<envVars, auxVars, timeoutVars, waitVars, saves, completed_repos,
                   now, running, executed_runs, disk, last_cleanup, cycles, pc,
                   scanVars, execVars, histVars>>

\* _execute_commands under the lock: one iteration of the loop over the commands
WorkerExecCommand(r) ==
    /\ workers[r].pc = "exec"
    /\ workers[r].ci <= Len(workers[r].commands_to_execute)
    /\ LET cmd == workers[r].commands_to_execute[workers[r].ci]
       IN  IF cmd.command = ""
           THEN /\ workers' = [workers EXCEPT ![r].ci = @ + 1]
                /\ UNCHANGED dispatches
           ELSE \E b \in ProcessBehaviours :
                /\ workers' = [workers EXCEPT
                        ![r].ci = NextCommand(@, workers[r].commands_to_execute,
                                              ExecuteSingleCommand(b)),
                        ![r].commands_executed =
                            (@ \/ (~ExceptionEscapes(b) /\ CommandSucceeded(ExecuteSingleCommand(b)))),
                        ![r].ran = Append(@, [name |-> cmd.name, kind |-> b.kind,
                                              returncode |-> b.returncode,
                                              value |-> ExecuteSingleCommand(b)])]
                /\ dispatches' = IF workers[r].ran = <<>>
                                 THEN [dispatches EXCEPT ![WorkerKey(r)] = @ + 1]
                                 ELSE dispatches
    /\ UNCHANGED <<envVars, auxVars, timeoutVars, waitVars, saves, lock, completed_repos,
                   now, running, executed_runs, disk, last_cleanup, cycles, pc,
                   scanVars, execVars, okSince, evicted, unresolved, last_dispatch>>

\* _execute_commands under the lock: marking, return, and the end of the 'with' block
WorkerFinishCommands(r) ==
    /\ workers[r].pc = "exec"
    /\ workers[r].ci > Len(workers[r].commands_to_execute)
    /\ executed_runs' =
            IF ShouldMarkExecuted(workers[r].commands_executed, workers[r].commands_to_execute)
            THEN executed_runs \cup {WorkerKey(r)}
            ELSE executed_runs
    /\ okSince' = IF SomeExitZero(workers[r].ran) THEN okSince \cup {WorkerKey(r)} ELSE okSince
    /\ unresolved' = unresolved \ {WorkerKey(r)}
    /\ lock' = NoHolder
    /\ workers' = [workers EXCEPT
            ![r].commands_to_execute = <<>>,
            ![r].ci = 1,
            ![r].commands_executed = FALSE,
            ![r].ran = <<>>,
            ![r].ni = @ + 1,
            ![r].pc = "run"]
    /\ UNCHANGED <<envVars, auxVars, timeoutVars, waitVars, saves, completed_repos,
                   now, running, disk, last_cleanup, cycles, pc,
                   scanVars, execVars, dispatches, evicted, last_dispatch>>

\* _monitor_single_repository: the outer 'except Exception', 'return False'
WorkerFatalError(r) ==
    /\ workers[r].pc = "workflow"
    /\ workers' = [workers EXCEPT ![r].pc = "done", ![r].returned = FALSE]
    /\ UNCHANGED <<envVars, auxVars, timeoutVars, waitVars, saves, lock, completed_repos,
                   now, running, executed_runs, disk, last_cleanup, cycles, pc,
                   scanVars, execVars, histVars>>

\* a call made by the scanner (workflow.get_runs) never returns
WorkerHang(r) ==
    /\ workers[r].pc = "workflow"
    /\ workers[r].wi <= Len(WorkflowsOf(r))
    /\ workers' = [workers EXCEPT ![r].pc = "hung"]
    /\ UNCHANGED <<envVars, auxVars, timeoutVars, waitVars, saves, lock, completed_repos,
                   now, running, executed_runs, disk, last_cleanup, cycles, pc,
                   scanVars, execVars, histVars>>

\* one iteration of 'for future in as_completed(...)': a call that has returned
Collect(r) ==
    /\ pc = "as_completed"
    /\ r \in Returned \ Collected
    /\ completed_repos' = IF CountsAsCompleted(workers[r].returned)
                          THEN Append(completed_repos, r)
                          ELSE completed_repos
    /\ UNCHANGED <<envVars, auxVars, timeoutVars, waitVars, saves, workers, lock,
                   now, running, executed_runs, disk, last_cleanup, cycles, pc,
                   scanVars, execVars, histVars>>

\* as_completed is exhausted, the 'with ThreadPoolExecutor' block ends
AllCollected ==
    /\ pc = "as_completed"
    /\ Collected = Configured
    /\ pc' = "save"
    /\ UNCHANGED <<envVars, auxVars, timeoutVars, parVars, waitVars, saves,
                   now, running, executed_runs, disk, last_cleanup, cycles,
                   scanVars, execVars, histVars>>

\* as_completed(timeout=self.repo_timeout * 2) raises TimeoutError: calls are unfinished
OuterTimeout ==
    /\ pc = "as_completed"
    /\ Returned # Configured
    /\ pc' = "shutdown"
    /\ UNCHANGED <<envVars, auxVars, timeoutVars, parVars, waitVars, saves,
                   now, running, executed_runs, disk, last_cleanup, cycles,
                   scanVars, execVars, histVars>>

\* the exception leaves the 'with ThreadPoolExecutor' block: shutdown(wait=True) joins
\* every call; then 'except Exception' of _monitor_workflows_parallel, without _save_state
ExecutorShutdown ==
    /\ pc = "shutdown"
    /\ Returned = Configured
    /\ pc' = "cleanup"
    /\ UNCHANGED <<envVars, auxVars, timeoutVars, parVars, waitVars, saves,
                   now, running, executed_runs, disk, last_cleanup, cycles,
                   scanVars, execVars, histVars>>

NextParallel ==
    \/ StartParallelCycle
    \/ \E r \in RepoSet : WorkerStart(r)
    \/ \E r \in RepoSet : WorkerNextWorkflow(r)
    \/ \E r \in RepoSet : WorkerNextRun(r)
    \/ \E r \in RepoSet : WorkerAcquire(r)
    \/ \E r \in RepoSet : WorkerResolve(r)
    \/ \E r \in RepoSet : WorkerExecCommand(r)
    \/ \E r \in RepoSet : WorkerFinishCommands(r)
    \/ \E r \in RepoSet : WorkerFatalError(r)
    \/ \E r \in RepoSet : WorkerHang(r)
    \/ \E r \in RepoSet : Collect(r)
    \/ AllCollected
    \/ OuterTimeout
    \/ ExecutorShutdown
    \/ SaveState
    \/ Cleanup
    \/ Sleep
    \/ Signal

SpecParallel == InitParallel /\ [][NextParallel]_vars

\* the scheduler runs a step while one is possible
SpecParallelFair == SpecParallel /\ WF_vars(NextParallel)

----------------------------------------------------------------------------
(* The choice between the two poll cycles, over deployments with one or two  *)
(* repositories, parallelism enabled or not, and a pool of one or of         *)
(* max_parallel_workers threads.                                             *)

\* one or two repositories, monitoring.enable_parallel true or false, and for the pool
\* max_parallel_workers 1 or the default
Deployments ==
    { [repos |-> rs, parallel_enabled |-> en, max_workers |-> MaxWorkers] :
            rs \in {OneRepo, Repos}, en \in BOOLEAN }
        \cup { [repos |-> Repos, parallel_enabled |-> TRUE, max_workers |-> 1] }

InitMode ==
    /\ config \in ParallelConfigs
    /\ source = MainSource
    /\ dispatches = [k \in AllKeys(MainSource) |-> 0]
    /\ pc = "loop"
    /\ InitCommon
    /\ \E d \in Deployments :
        /\ repos = d.repos
        /\ parallel_enabled = d.parallel_enabled
        /\ max_workers = d.max_workers

\* _monitor_workflows: an exception outside the per-workflow 'try' (the handler at line
\* 957, which formats workflow.name and logs, or the logging between workflows) reaches
\* the outer 'except Exception' of the cycle; the counterpart of WorkerFatalError
ScanFatalError ==
    /\ pc \in {"workflow", "run"}
    /\ pc' = "cleanup"
    /\ UNCHANGED <<envVars, auxVars, timeoutVars, parVars, waitVars, saves,
                   now, running, executed_runs, disk, last_cleanup, cycles,
                   scanVars, execVars, histVars>>

NextMode ==
    \/ LoopCheck
    \/ NextRepo
    \/ NextWorkflow
    \/ NextRun
    \/ ExecCommand
    \/ FinishCommands
    \/ ScanFatalError
    \/ NextParallel

SpecMode == InitMode /\ [][NextMode]_vars

----------------------------------------------------------------------------
(* The timeout of one command, over a broad set of command definitions *)

InitTimeout ==
    /\ config \in { Config(EmptyMap, Definitions, <<>>, {}) }
    /\ source = MainSource
    /\ dispatches = [k \in AllKeys(MainSource) |-> 0]
    /\ pc = "timeout"
    /\ now = StartTime
    /\ running = TRUE
    /\ executed_runs = {}
    /\ disk = {}
    /\ last_cleanup = 0
    /\ cycles = 0
    /\ ri = 1
    /\ wi = 1
    /\ new_runs = <<>>
    /\ fetched = FALSE
    /\ ni = 1
    /\ commands_to_execute = <<>>
    /\ repo_commands = <<>>
    /\ ci = 1
    /\ commands_executed = FALSE
    /\ ran = <<>>
    /\ result = NoneValue
    /\ raised = FALSE
    /\ last_behaviour = NoBehaviour
    /\ okSince = {}
    /\ evicted = {}
    /\ unresolved = {}
    /\ last_dispatch = NoDispatch
    /\ cmd_config \in TimeoutCommands
    /\ timeout = 0
    /\ InitNoWorkers
    /\ InitNoWait
    /\ InitNoHistory
    /\ InitNoAnswers
    /\ InitSequential

\* _execute_commands: 'timeout = cmd_config.get('timeout', ...)' for one cmd_config
ComputeTimeout ==
    /\ pc = "timeout"
    /\ timeout' = CommandTimeout(cmd_config)
    /\ pc' = "timeout_done"
    /\ UNCHANGED <<envVars, auxVars, cmd_config, parVars, waitVars, saves,
                   now, running, executed_runs, disk, last_cleanup, cycles,
                   scanVars, execVars, histVars>>

NextTimeout == ComputeTimeout

SpecTimeout == InitTimeout /\ [][NextTimeout]_vars

\* the first word of a text
FirstWord(text) ==
    IF \E i \in 1..Len(text) : text[i] = " "
    THEN SubSeq(text, 1, (CHOOSE i \in 1..Len(text) :
                            text[i] = " " /\ \A j \in 1..(i - 1) : text[j] # " ") - 1)
    ELSE text

\* the timeout class of a command by the tool it calls
TimeoutOfTool(tool) ==
    IF tool \in { <<"c", "u", "r", "l">>, <<"w", "g", "e", "t">> } THEN 60
    ELSE IF tool = <<"k", "u", "b", "e", "c", "t", "l">> THEN 120
    ELSE IF tool = <<"g", "i", "t">> THEN 180
    ELSE IF tool \in { <<"d", "o", "c", "k", "e", "r">>, <<"p", "o", "d", "m", "a", "n">> } THEN 300
    ELSE 120

\* C13 as stated: the timeout of a command is its override when one is configured, and
\* otherwise 60 s for curl/wget, 120 s for kubectl, 180 s for git, 300 s for every
\* docker/podman command, 120 s for anything else.
C13_TimeoutIsOverrideOrByTool ==
    pc = "timeout_done" =>
        timeout = IF cmd_config.has_timeout THEN cmd_config.timeout
                  ELSE TimeoutOfTool(FirstWord(Lower(cmd_config.command)))

----------------------------------------------------------------------------
(* The main loop of run() with its waits followed second by second *)

InitLoop ==
    /\ config \in { Config(MapExactOnly, Definitions, <<>>, {}) }
    /\ source = MainSource
    /\ dispatches = [k \in AllKeys(MainSource) |-> 0]
    /\ pc = "loop"
    /\ InitCommon
    /\ InitSequential

\* 'for _ in range(poll_interval): if not self.running: break; time.sleep(1)': one
\* iteration that sleeps
SleepSecond ==
    /\ pc = "sleep"
    /\ slept < ShortPollInterval
    /\ running
    /\ slept' = slept + 1
    /\ now' = now + 1
    /\ UNCHANGED <<envVars, auxVars, timeoutVars, parVars, saves, late, stopVars,
                   running, executed_runs, disk, last_cleanup, cycles, pc,
                   scanVars, execVars, histVars>>

\* the wait loop ends: the range is exhausted, or 'break' when self.running is False
SleepEnd ==
    /\ pc = "sleep"
    /\ slept = ShortPollInterval \/ ~running
    /\ slept' = 0
    /\ pc' = "loop"
    /\ UNCHANGED <<envVars, auxVars, timeoutVars, parVars, saves, late, stopVars,
                   now, running, executed_runs, disk, last_cleanup, cycles,
                   scanVars, execVars, histVars>>

\* an exception of the loop body after the monitoring call (the comparison with
\* health_interval raises TypeError when health.update_interval is not a number):
\* 'except Exception' of the loop
LoopBodyError ==
    /\ pc = "cleanup"
    /\ pc' = "error_wait"
    /\ UNCHANGED <<envVars, auxVars, timeoutVars, parVars, waitVars, saves,
                   now, running, executed_runs, disk, last_cleanup, cycles,
                   scanVars, execVars, histVars>>

\* 'time.sleep(poll_interval)' of the exception handler: one second of the single sleep
\* call, which does not look at self.running
ErrorWaitSecond ==
    /\ pc = "error_wait"
    /\ slept < ShortPollInterval
    /\ slept' = slept + 1
    /\ now' = now + 1
    /\ late' = IF running THEN late ELSE late + 1
    /\ UNCHANGED <<envVars, auxVars, timeoutVars, parVars, saves, stopVars,
                   running, executed_runs, disk, last_cleanup, cycles, pc,
                   scanVars, execVars, histVars>>

\* the sleep call of the exception handler returns
ErrorWaitEnd ==
    /\ pc = "error_wait"
    /\ slept = ShortPollInterval
    /\ slept' = 0
    /\ pc' = "loop"
    /\ UNCHANGED <<envVars, auxVars, timeoutVars, parVars, saves, late, stopVars,
                   now, running, executed_runs, disk, last_cleanup, cycles,
                   scanVars, execVars, histVars>>

NextLoop ==
    \/ LoopCheck
    \/ NextRepo
    \/ NextWorkflow
    \/ NextRun
    \/ ExecCommand
    \/ FinishCommands
    \/ SaveState
    \/ Cleanup
    \/ SleepSecond
    \/ SleepEnd
    \/ LoopBodyError
    \/ ErrorWaitSecond
    \/ ErrorWaitEnd
    \/ Signal

SpecLoop == InitLoop /\ [][NextLoop]_vars

\* C20 as stated: when the shutdown flag is set while the loop waits, also in the wait
\* after an error in the loop body, at most one one-second wait step is begun with the
\* flag set before the loop leaves the wait, and no Scanning phase is in progress after
\* such a step.
C20_ShutdownLeavesWaitWithinOneSecond ==
    stop_pc \in {"sleep", "error_wait"} =>
        /\ late <= 1
        /\ pc \in {"sleep", "error_wait", "loop", "stopped"}

----------------------------------------------------------------------------
(* Properties of the poll cycle *)

KeyOfRun(workflow_id, run) == RunKey(RepoOfWorkflow(workflow_id), workflow_id, run.id)

\* the run is inside its freshness window (or has no timestamp)
InsideWindow(run, current_time) ==
    run.updated_at = NoTimestamp \/ current_time - run.updated_at <= FreshnessWindow

SourceRuns(workflow_id) == { source[workflow_id][i] : i \in 1..Len(source[workflow_id]) }
NewRuns == { new_runs[i] : i \in 1..Len(new_runs) }

\* a command of the dispatch of CurKey is handed to the runner in this step
CommandRunsNow == pc = "exec" /\ Len(ran') > Len(ran)

\* _execute_commands has just returned to the loop over new_runs
JustDispatched == pc = "run" /\ last_dispatch.done

\* C1 as stated: every run is dispatched at most once over all cycles, whatever the
\* exit statuses of its commands were (a key that a retention pass evicted is left
\* aside, as in C2).
C1_DispatchedOnceWhateverExit ==
    \A k \in DOMAIN dispatches : dispatches[k] <= 1 \/ k \in evicted

\* C1 amended: once a dispatch of a run had a command that ended with exit code 0, no
\* later step starts another dispatch of that run, unless a retention pass evicted its
\* key in between.
C1_NoRedispatchAfterSuccess ==
    [][\A k \in DOMAIN dispatches :
            dispatches'[k] > dispatches[k] => k \notin okSince]_vars

\* C1 witness: in the second cycle a run that was dispatched with success in the first
\* cycle is still inside its window, and the scan ended without dispatching it again.
C1_Witness ==
    /\ cycles = 2
    /\ pc = "save"
    /\ running
    /\ \E w \in AllWorkflows : \E r \in SourceRuns(w) :
        /\ KeyOfRun(w, r) \in okSince
        /\ dispatches[KeyOfRun(w, r)] = 1
        /\ InsideWindow(r, now)
        /\ r.updated_at # NoTimestamp

\* C2: no command is run for a RunKey that is in executed_runs (a key that a retention
\* pass removed is no longer in executed_runs).
C2_NoCommandForExecutedKey ==
    [][CommandRunsNow => CurKey \notin executed_runs]_vars

\* C2 witness: a later detection pass listed the runs of a workflow and left out a
\* fresh, successful run of an allowed branch because its key is in executed_runs.
C2_Witness ==
    /\ cycles = 2
    /\ pc = "run"
    /\ fetched
    /\ \E r \in SourceRuns(CurWorkflow) :
        /\ KeyOfRun(CurWorkflow, r) \in executed_runs
        /\ IsSuccessful(r)
        /\ ShouldMonitorBranch(config, r.head_branch)
        /\ InsideWindow(r, now)
        /\ r \notin NewRuns

\* C3 as stated: after a dispatch in which at least one command was run, whatever its
\* outcome, the RunKey is in executed_runs.
C3_MarkedWhenAnyCommandRan ==
    JustDispatched /\ last_dispatch.ran # <<>> => last_dispatch.key \in executed_runs

\* C3 amended: after a dispatch in which at least one command ended with exit code 0,
\* the RunKey is in executed_runs.
C3_MarkedWhenSomeCommandSucceeded ==
    JustDispatched /\ SomeExitZero(last_dispatch.ran) => last_dispatch.key \in executed_runs

\* C3 witness: a dispatch with a failed and a successful command has marked its run.
C3_Witness ==
    /\ JustDispatched
    /\ SomeExitZero(last_dispatch.ran)
    /\ \E i \in 1..Len(last_dispatch.ran) : last_dispatch.ran[i].kind # "exit"
    /\ last_dispatch.key \in executed_runs

\* C4 as stated: a dispatch for which zero commands are configured marks the run: its
\* RunKey is in executed_runs afterwards.
C4_MarkedWhenNothingConfigured ==
    JustDispatched /\ last_dispatch.configured = 0 => last_dispatch.key \in executed_runs

\* C5: when the map resolves to names none of which has a definition, no command runs
\* and the RunKey is not added to executed_runs; and every later detection pass returns
\* such a run while it is successful, on an allowed branch and inside its window.
C5_UnresolvedNotMarkedAndRedetected ==
    /\ JustDispatched /\ last_dispatch.configured > 0 /\ last_dispatch.resolved = 0
            => last_dispatch.ran = <<>> /\ last_dispatch.key \notin executed_runs
    /\ pc = "run" /\ fetched
            => \A r \in SourceRuns(CurWorkflow) :
                    ( /\ KeyOfRun(CurWorkflow, r) \in unresolved
                      /\ IsSuccessful(r)
                      /\ ShouldMonitorBranch(config, r.head_branch)
                      /\ InsideWindow(r, now) )
                    => r \in NewRuns

\* C5 witness: the second cycle detects again a run whose dispatch of the first cycle
\* found names without definitions.
C5_Witness ==
    /\ cycles = 2
    /\ pc = "run"
    /\ fetched
    /\ ni = 1
    /\ \E r \in NewRuns :
        /\ KeyOfRun(CurWorkflow, r) \in unresolved
        /\ KeyOfRun(CurWorkflow, r) \notin executed_runs

\* the runner has just returned from a command
RunnerReturned == pc = "exec" /\ last_behaviour # NoBehaviour

\* C10 as stated: for every failure kind the runner returns without raising and the
\* value returned is never None.
C10_NeverRaisesNeverNone ==
    RunnerReturned => ~raised /\ result.type # "None"

\* C10 amended: for every failure kind the runner returns without raising; it returns a
\* result object for an exit (with the exit code) and for a timeout (return code -1), and
\* None for permission denied, not found and any other exception.
C10_NeverRaisesNoneOnError ==
    RunnerReturned =>
        /\ ~raised
        /\ last_behaviour.kind = "exit" =>
                result.type = "CompletedProcess" /\ result.returncode = last_behaviour.returncode
        /\ last_behaviour.kind = "timeout" =>
                /\ result.type = "TimeoutResult"
                /\ result.returncode = -1
                /\ result.stdout = last_behaviour.stdout
        /\ last_behaviour.kind \in {"permission", "notfound", "error"} => result.type = "None"

\* C10 witness: the runner has returned None after an unexpected exception.
C10_Witness ==
    /\ RunnerReturned
    /\ last_behaviour.kind = "error"
    /\ ~raised
    /\ result.type = "None"

NamesOf(commands) == [i \in 1..Len(commands) |-> commands[i].name]

\* the commands among the first n of the list that have a command text
WithText(commands, n) == SelectSeq(SubSeq(commands, 1, n), LAMBDA c : c.command # "")

\* the process of a command that was run did not end with exit code 0
Failed(entry) == entry.kind # "exit" \/ entry.returncode # 0

\* C11: within one dispatch every resolved command with a command text is run, in list
\* order, whatever the outcome of the commands before it: when the loop has passed the
\* first n commands, the commands run are exactly those of the n that have a text.
C11_EveryCommandRunsInOrder ==
    pc = "exec" => NamesOf(ran) = NamesOf(WithText(commands_to_execute, ci - 1))

\* C11 witness: the loop is over, the first command run has failed (non-zero exit,
\* timeout or exception) and the command after it has run all the same.
C11_Witness ==
    /\ pc = "exec"
    /\ ci > Len(commands_to_execute)
    /\ Len(ran) >= 2
    /\ Failed(ran[1])
    /\ \E i \in 1..Len(ran) : ran[i].kind = "timeout"
    /\ NamesOf(ran) = NamesOf(WithText(commands_to_execute, Len(commands_to_execute)))

\* C12: for a command that ran longer than its timeout the runner returns a timeout
\* result: not a completed process, not None, return code -1 (so never counted as a
\* success), carrying the stdout captured before the timeout.
C12_TimeoutYieldsTimedOutWithPartialOutput ==
    RunnerReturned /\ last_behaviour.kind = "timeout" =>
        /\ result.type \notin {"CompletedProcess", "None"}
        /\ result.returncode # 0
        /\ result.stdout = last_behaviour.stdout
        /\ \A i \in 1..Len(ran) :
                ran[i].kind = "exit" => ran[i].value # result

\* C12 witness: a command that had written output timed out, and the value returned
\* carries that output.
C12_Witness ==
    /\ RunnerReturned
    /\ last_behaviour.kind = "timeout"
    /\ last_behaviour.stdout = "partial"
    /\ result.stdout = "partial"
    /\ \E i \in 1..Len(ran) : ran[i].kind = "exit" /\ ran[i].returncode # 0

FailureKinds == {"permission", "notfound", "error"}

\* C14 as stated: the values returned for a permission-denied failure, a not-found
\* failure and an unexpected error differ from one another.
C14_FailureKindsReturnDifferentValues ==
    \A i, j \in 1..Len(ran) :
        ( /\ ran[i].kind \in FailureKinds
          /\ ran[j].kind \in FailureKinds
          /\ ran[i].kind # ran[j].kind )
        => ran[i].value # ran[j].value

\* C14 amended: the value returned is the same (None) for a permission-denied failure, a
\* not-found failure and an unexpected error, and it differs from the value returned
\* for a process that exited and for a process that timed out.
C14_FailureKindsShareNone ==
    \A i, j \in 1..Len(ran) :
        ran[i].kind \in FailureKinds =>
            /\ ran[i].value.type = "None"
            /\ ran[j].kind \in FailureKinds => ran[j].value = ran[i].value
            /\ ran[j].kind \in {"exit", "timeout"} => ran[j].value # ran[i].value

\* C14 witness: one dispatch met a permission-denied and a not-found failure, and the
\* runner returned the same value for both.
C14_Witness ==
    /\ pc = "exec"
    /\ \E i, j \in 1..Len(ran) :
        /\ ran[i].kind = "permission"
        /\ ran[j].kind = "notfound"
        /\ ran[i].value = ran[j].value

----------------------------------------------------------------------------
(* Properties of the parallel poll cycle *)

\* the cycle is past its Scanning phase
ScanningOver == pc \in {"save", "cleanup", "sleep", "loop", "stopped"}

\* C15 as stated: in every cycle the state is saved exactly once, and the save starts
\* only when every scanner of the cycle has returned; also in a cycle in which a scanner
\* failed or the outer wait timed out.
C15_SavedOncePerCycleAfterAllScanners ==
    /\ pc = "save" => Returned = RepoSet /\ lock = NoHolder
    /\ pc = "cleanup" => saves = 1

\* C16 as stated: when a scanner hangs, the cycle still leaves its Scanning phase.
C16_HungScannerDoesNotStallCycle ==
    (\E r \in RepoSet : workers[r].pc = "hung") ~> ScanningOver

\* C17 as stated: a scanner that ended with an error (returned False) is not counted in
\* the completed repositories of the cycle.
C17_FailedScannerNotCounted ==
    \A r \in Collected : workers[r].pc = "done" => workers[r].returned

\* C18: no two workers are inside the dispatch of a run at the same time, and the worker
\* inside holds the lock.
C18_OneWorkerInDispatch ==
    \A a, b \in RepoSet :
        InDispatch(a) => lock = a /\ (InDispatch(b) => a = b)

\* C18 witness: a worker is running the commands of a run of its repository while the
\* worker of the other repository, past its freshness check, waits for the lock.
C18_Witness ==
    \E a, b \in RepoSet :
        /\ a # b
        /\ InDispatch(a)
        /\ lock = a
        /\ workers[b].pc = "lock"
        /\ workers[b].new_runs # <<>>

\* a command of the worker's dispatch has been handed to the runner and the loop over
\* the commands has not ended
CommandRunning(r) == workers[r].pc = "exec" /\ workers[r].ci <= Len(workers[r].commands_to_execute)

\* C19 as stated: while a command of repository A is running, the scanner of another
\* repository B that has an eligible run can dispatch it.
C19_OtherRepositoryCanDispatch ==
    \A a, b \in RepoSet :
        (a # b /\ CommandRunning(a) /\ workers[b].pc = "lock") => ENABLED WorkerAcquire(b)

\* C19 amended: a worker enters the dispatch of a run only when no other worker is
\* inside a dispatch; while it waits it has already fetched and filtered its runs.
C19_DispatchWaitsForOtherRepository ==
    [][\A b \in RepoSet :
            (~InDispatch(b) /\ InDispatch(b)') =>
                /\ \A a \in RepoSet \ {b} : ~InDispatch(a)
                /\ workers[b].ni <= Len(workers[b].new_runs)]_vars

\* C19 witness: repository A's command is running, and repository B has detected an
\* eligible run of its own and waits for the lock.
C19_Witness ==
    \E a, b \in RepoSet :
        /\ a # b
        /\ CommandRunning(a)
        /\ workers[b].pc = "lock"
        /\ WorkerKey(b) \notin executed_runs
        /\ ~ENABLED WorkerAcquire(b)

----------------------------------------------------------------------------
(* Properties of the freshness filter *)

\* conditions (a) to (d) of the filter, for a run of workflow 11 of org/repo
Eligible(run) ==
    /\ run.conclusion = "success"
    /\ RunKey("org/repo", 11, run.id) \notin executed_runs
    /\ (config.branches = {} \/ run.head_branch \in config.branches)
    /\ (run.updated_at = NoTimestamp \/ now - run.updated_at <= 300)

\* C6: the filter returns exactly the runs that are successful, not in executed_runs, on
\* an allowed branch (an empty allow-list allows all) and at most 300 s old or without a
\* timestamp, in the order of the input.
C6_FilterKeepsExactlyEligible ==
    pc = "filtered" /\ fetched =>
        /\ \A r \in SourceRuns(11) : r \in NewRuns <=> Eligible(r)
        /\ NewRuns \subseteq SourceRuns(11)
        /\ \A i, j \in 1..Len(new_runs) : i < j => new_runs[i].id < new_runs[j].id

\* C6 witness: a run of age exactly 300 s is returned and an otherwise eligible run of
\* age 301 s is dropped.
C6_Witness ==
    /\ pc = "filtered"
    /\ fetched
    /\ \E r \in NewRuns : now - r.updated_at = 300 /\ r.updated_at # NoTimestamp
    /\ \E r \in SourceRuns(11) :
        /\ now - r.updated_at = 301
        /\ r.conclusion = "success"
        /\ RunKey("org/repo", 11, r.id) \notin executed_runs
        /\ (config.branches = {} \/ r.head_branch \in config.branches)
        /\ r \notin NewRuns

----------------------------------------------------------------------------
(* Properties of the command resolution *)

\* the entry of the resolution order that exists first, as <<exists, list>>
FirstExistingEntry(execution_map, repo_name, branch_name) ==
    IF repo_name \in DOMAIN execution_map /\ branch_name \in DOMAIN execution_map[repo_name]
    THEN <<TRUE, execution_map[repo_name][branch_name]>>
    ELSE IF repo_name \in DOMAIN execution_map /\ Wildcard \in DOMAIN execution_map[repo_name]
    THEN <<TRUE, execution_map[repo_name][Wildcard]>>
    ELSE IF Wildcard \in DOMAIN execution_map /\ branch_name \in DOMAIN execution_map[Wildcard]
    THEN <<TRUE, execution_map[Wildcard][branch_name]>>
    ELSE IF Wildcard \in DOMAIN execution_map /\ Wildcard \in DOMAIN execution_map[Wildcard]
    THEN <<TRUE, execution_map[Wildcard][Wildcard]>>
    ELSE <<FALSE, <<>> >>

\* the single run of a dispatch specification and its first matching entry
DispatchedRun == new_runs[1]
DispatchedEntry == FirstExistingEntry(config.execution_map, CurRepo, BranchName(DispatchedRun))

\* _execute_commands has resolved the commands of the run
Resolved == pc = "exec" \/ last_dispatch.done

\* C7 as stated: resolution returns the list of the first entry that exists in the order
\* [repository][branch], [repository]['*'], ['*'][branch], ['*']['*'], and no commands
\* when there is no entry.
C7_FirstExistingEntryWins ==
    UseExecutionMap(config) /\ Resolved => repo_commands = DispatchedEntry[2]

\* C8 as stated: when the first matching entry is an empty list, resolution yields no
\* commands and no command of a lower-precedence wildcard entry is run.
C8_EmptyEntryYieldsNoCommands ==
    ( /\ UseExecutionMap(config)
      /\ Resolved
      /\ DispatchedEntry = <<TRUE, <<>> >> )
    => repo_commands = <<>> /\ commands_to_execute = <<>> /\ ran = <<>>

LegacyNames == { config.on_success[i].name : i \in 1..Len(config.on_success) }

\* C9: with an execution map present (non-empty), no command of the legacy on_success
\* list is resolved or run, also when the map resolves to no commands; without an
\* execution map the legacy list is what is run, for every repository and branch.
C9_MapTakesPrecedenceOverLegacy ==
    /\ UseExecutionMap(config) =>
        /\ \A i \in 1..Len(commands_to_execute) : commands_to_execute[i].name \notin LegacyNames
        /\ \A i \in 1..Len(ran) : ran[i].name \notin LegacyNames
        /\ \A i \in 1..Len(last_dispatch.ran) : last_dispatch.ran[i].name \notin LegacyNames
    /\ ~UseExecutionMap(config) /\ last_dispatch.done =>
        NamesOf(last_dispatch.ran) =
            NamesOf(SelectSeq(config.on_success, LAMBDA c : c.command # ""))

\* C9 witness: map and legacy list are both configured, the map resolved to no commands
\* for the run, and the dispatch has returned without running anything.
C9_Witness ==
    /\ UseExecutionMap(config)
    /\ config.on_success # <<>>
    /\ last_dispatch.done
    /\ last_dispatch.resolved = 0
    /\ last_dispatch.ran = <<>>

----------------------------------------------------------------------------
(* Properties of the choice between the two poll cycles *)

\* the orchestrator is inside the sequential scan of _monitor_workflows
SequentialScan == pc \in {"repo", "workflow", "run", "exec"}

\* the orchestrator is inside the 'with ThreadPoolExecutor' block
PoolScan == pc \in {"as_completed", "shutdown"}

\* C29: a cycle scans on the worker pool exactly when parallelism is enabled and more
\* than one repository is configured, and then at most max_workers scanners run at any
\* time; otherwise the repositories are scanned in the orchestrator's thread and no
\* scanner is ever submitted to a pool
C29_PoolExactlyWhenEnabledAndSeveralRepositories ==
    IF parallel_enabled /\ Len(repos) > 1
    THEN /\ ~SequentialScan
         /\ Cardinality(Active) <= max_workers
         /\ cycles >= 1 => \A r \in Configured : workers[r].pc # "idle"
    ELSE /\ ~PoolScan
         /\ \A r \in RepoSet : workers[r].pc = "idle"

\* a pool of one thread and two repositories: one scanner runs, the other waits for it
C29_Witness ==
    /\ parallel_enabled /\ Len(repos) > 1
    /\ \E a, b \in Configured :
        /\ a \in Active
        /\ workers[b].pc = "queued"
        /\ Cardinality(Active) = max_workers

\* a RunKey is added to executed_runs by this step
KeyAdded == executed_runs' \ executed_runs # {}

\* C30: on the parallel path every addition of a RunKey to executed_runs is made by a
\* scanner that holds _execution_lock; on the sequential path the addition is made by
\* the orchestrator's thread, which never takes the lock
C30_ParallelAdditionsUnderLock ==
    [][KeyAdded =>
            IF PoolScan
            THEN \E r \in Configured :
                    /\ lock = r
                    /\ workers[r].pc = "exec"
                    /\ executed_runs' = executed_runs \cup {WorkerKey(r)}
            ELSE /\ pc = "exec"
                 /\ lock = NoHolder
                 /\ executed_runs' = executed_runs \cup {CurKey}]_vars

\* a scanner of the pool holds the lock and is about to mark its run, after another
\* run was marked in the same cycle
C30_Witness ==
    /\ PoolScan
    /\ executed_runs # {}
    /\ \E r \in Configured :
        /\ lock = r
        /\ workers[r].pc = "exec"
        /\ workers[r].ci > Len(workers[r].commands_to_execute)
        /\ workers[r].commands_executed
        /\ WorkerKey(r) \notin executed_runs

\* C30 as stated: every addition, on the sequential path too, is made under the lock
C30_EveryAdditionUnderLock == [][KeyAdded => lock # NoHolder]_vars

----------------------------------------------------------------------------
(* Properties of the shutdown flag during a scan *)

\* C21: a scanner that was waiting for the dispatch lock when the shutdown flag was set
\* does not begin the dispatch of its run afterwards
C21_WaitingScannerDoesNotDispatch ==
    [][\A r \in stop_waiters : ~(workers[r].pc = "lock" /\ workers'[r].pc = "resolve")]_vars

----------------------------------------------------------------------------
(* The retention pass _cleanup_old_executed_runs over run keys as the texts   *)
(* they are: f"{repo_name}:{workflow.id}:{run.id}", a list of characters.     *)

Digits == <<"0", "1", "2", "3", "4", "5", "6", "7", "8", "9">>

IsDigit(c) == \E d \in 1..Len(Digits) : Digits[d] = c

DigitValue(c) == (CHOOSE d \in 1..Len(Digits) : Digits[d] = c) - 1

\* str(n) of a natural number
RECURSIVE IntText(_)
IntText(n) ==
    IF n < Len(Digits)
    THEN <<Digits[n + 1]>>
    ELSE IntText(n \div Len(Digits)) \o <<Digits[(n % Len(Digits)) + 1]>>

\* the repository names as texts
RepoText(repo_name) ==
    IF repo_name = "org/repo"
    THEN <<"o", "r", "g", "/", "r", "e", "p", "o">>
    ELSE <<"o", "t", "h", "e", "r", "/", "r", "e", "p", "o">>

\* run_key = f"{repo_name}:{workflow.id}:{run.id}"
RunKeyText(repo_name, workflow_id, run_id) ==
    RepoText(repo_name) \o <<":">> \o IntText(workflow_id) \o <<":">> \o IntText(run_id)

\* run_key.split(':')
RECURSIVE Split(_, _)
Split(text, sep) ==
    IF \E i \in 1..Len(text) : text[i] = sep
    THEN LET i == CHOOSE k \in 1..Len(text) :
                        text[k] = sep /\ \A j \in 1..(k - 1) : text[j] # sep
         IN  <<SubSeq(text, 1, i - 1)>> \o Split(SubSeq(text, i + 1, Len(text)), sep)
    ELSE <<text>>

\* int(text) does not raise ValueError: an optional sign and decimal digits (the
\* surrounding whitespace and the underscores int() also accepts are not explored)
IsInt(text) ==
    LET body == IF Len(text) > 0 /\ text[1] \in {"+", "-"} THEN Tail(text) ELSE text
    IN  /\ Len(body) > 0
        /\ \A i \in 1..Len(body) : IsDigit(body[i])

\* int(text) of a text of digits
RECURSIVE ParseInt(_)
ParseInt(text) ==
    IF Len(text) = 0
    THEN 0
    ELSE IF text[1] = "+" THEN ParseInt(Tail(text))
    ELSE IF text[1] = "-" THEN 0 - ParseInt(Tail(text))
    ELSE ParseInt(SubSeq(text, 1, Len(text) - 1)) * Len(Digits) + DigitValue(text[Len(text)])

\* 'repo_name in self.repos'
InRepos(name_text) == \E r \in Configured : RepoText(r) = name_text

\* a run as repo.get_workflow_run returns it
StoredRun(repo_name, workflow_id, run_id, updated_at) ==
    [repo |-> repo_name, workflow |-> workflow_id, id |-> run_id, updated_at |-> updated_at]

\* repo.get_workflow_run(run_id) returns: the source answers and has the run
Fetchable(src, name_text, run_id) ==
    /\ src.reachable
    /\ \E run \in src.runs : RepoText(run.repo) = name_text /\ run.id = run_id

GetWorkflowRun(src, name_text, run_id) ==
    CHOOSE run \in src.runs : RepoText(run.repo) = name_text /\ run.id = run_id

\* faulty variant: a run of exactly seven days is old
OlderThanRetention_Inclusive(run, current_time) ==
    /\ run.updated_at # NoTimestamp
    /\ current_time - run.updated_at >= RetentionWindow

\* 'if run.updated_at: age = current_time - run.updated_at; if age.total_seconds() > 604800'
OlderThanRetention(run, current_time) ==
    /\ run.updated_at # NoTimestamp
    /\ current_time - run.updated_at > RetentionWindow

\* faulty variant: a key whose run cannot be fetched is kept
FetchErrorRemoves_Kept(key) == FALSE

\* the inner 'except Exception: runs_to_remove.add(run_key)'
FetchErrorRemoves(key) == TRUE

\* the body of 'for run_key in executed_runs': the key is added to runs_to_remove
KeyIsRemoved(key, src, current_time) ==
    LET parts == Split(key, ":")
    IN  IF Len(parts) >= 3
        THEN IF ~IsInt(parts[2]) \/ ~IsInt(parts[3])
             THEN TRUE          \* ValueError, the outer 'except Exception'
             ELSE IF ~InRepos(parts[1])
             THEN FALSE
             ELSE IF ~Fetchable(src, parts[1], ParseInt(parts[3]))
             THEN FetchErrorRemoves(key)
             ELSE OlderThanRetention(GetWorkflowRun(src, parts[1], ParseInt(parts[3])),
                                     current_time)
        ELSE FALSE              \* no else branch: the key is passed over

\* runs_to_remove of one pass
RunsToRemoveOfTexts(executed, src, current_time) ==
    { key \in executed : KeyIsRemoved(key, src, current_time) }

\* the runs the source knows at the pass: older than seven days by a second and by a
\* day, exactly seven days old, recent, and without a timestamp
CleanupRuns ==
    { StoredRun("org/repo", 11, 101, CleanupTime - RetentionWindow - 1),
      StoredRun("org/repo", 11, 102, CleanupTime - RetentionWindow),
      StoredRun("org/repo", 11, 103, CleanupTime - RunAge),
      StoredRun("org/repo", 12, 104, NoTimestamp),
      StoredRun("other/repo", 21, 201, CleanupTime - RetentionWindow - 86400) }

\* the keys of these runs and of run 105, deleted upstream
WrittenKeys ==
    { RunKeyText(run.repo, run.workflow, run.id) : run \in CleanupRuns }
        \cup { RunKeyText("org/repo", 11, 105) }

\* texts no dispatch has written:
\*   org/repo:x:101, org/repo:11:abc, org/repo::101, org/repo:11, garbage,
\*   gone/repo:11:101, org/repo:11:103:extra
ForeignKeys ==
    { <<"o", "r", "g", "/", "r", "e", "p", "o", ":", "x", ":", "1", "0", "1">>,
      <<"o", "r", "g", "/", "r", "e", "p", "o", ":", "1", "1", ":", "a", "b", "c">>,
      <<"o", "r", "g", "/", "r", "e", "p", "o", ":", ":", "1", "0", "1">>,
      <<"o", "r", "g", "/", "r", "e", "p", "o", ":", "1", "1">>,
      <<"g", "a", "r", "b", "a", "g", "e">>,
      <<"g", "o", "n", "e", "/", "r", "e", "p", "o", ":", "1", "1", ":", "1", "0", "1">>,
      <<"o", "r", "g", "/", "r", "e", "p", "o", ":", "1", "1", ":", "1", "0", "3", ":",
        "e", "x", "t", "r", "a">> }

InitCleanup ==
    /\ config \in { Config(EmptyMap, Definitions, <<>>, {}) }
    /\ source \in { [reachable |-> up, runs |-> CleanupRuns] : up \in BOOLEAN }
    /\ repos \in {OneRepo, Repos}
    /\ parallel_enabled = FALSE
    /\ max_workers = MaxWorkers
    /\ executed_runs \in SUBSET (WrittenKeys \cup ForeignKeys)
    /\ dispatches = [k \in AllKeys(MainSource) |-> 0]
    /\ pc = "retention"
    /\ now = CleanupTime
    /\ running = TRUE
    /\ disk = {}
    /\ last_cleanup = 0
    /\ cycles = 0
    /\ ri = 1
    /\ wi = 1
    /\ new_runs = <<>>
    /\ fetched = FALSE
    /\ ni = 1
    /\ commands_to_execute = <<>>
    /\ repo_commands = <<>>
    /\ ci = 1
    /\ commands_executed = FALSE
    /\ ran = <<>>
    /\ result = NoneValue
    /\ raised = FALSE
    /\ last_behaviour = NoBehaviour
    /\ okSince = {}
    /\ evicted = {}
    /\ unresolved = {}
    /\ last_dispatch = NoDispatch
    /\ InitExtra

\* _cleanup_old_executed_runs: one whole pass
CleanupPass ==
    /\ pc = "retention"
    /\ LET runs_to_remove == RunsToRemoveOfTexts(executed_runs, source, now)
       IN  /\ executed_runs' = executed_runs \ runs_to_remove
           /\ evicted' = runs_to_remove
    /\ last_cleanup' = now
    /\ pc' = "retention_done"
    /\ UNCHANGED <<envVars, auxVars, timeoutVars, parVars, waitVars, saves,
                   now, running, disk, cycles, scanVars, execVars,
                   dispatches, okSince, unresolved, last_dispatch>>

NextCleanup == CleanupPass

SpecCleanup == InitCleanup /\ [][NextCleanup]_vars

----------------------------------------------------------------------------
(* Properties of the retention pass *)

\* the executed set as it was before the pass
BeforePass == executed_runs \cup evicted

\* the lookup of the run of a configured repository raises
LookupFails(repo_name, run_id) ==
    \/ ~source.reachable
    \/ ~\E run \in source.runs : run.repo = repo_name /\ run.id = run_id

C23_UnfetchableRunEvicted ==
    pc = "retention_done" =>
        \A r \in Configured, w \in {11, 12, 21}, id \in (101..105) \cup {201} :
            LET key == RunKeyText(r, w, id)
            IN  key \in BeforePass /\ LookupFails(r, id) => key \in evicted

\* the source answers, run 105 is deleted upstream, and its key was evicted while the
\* key of a recent run stayed
C23_Witness ==
    /\ pc = "retention_done"
    /\ source.reachable
    /\ RunKeyText("org/repo", 11, 105) \in evicted
    /\ RunKeyText("org/repo", 11, 103) \in executed_runs

\* number of ':' in a text
Colons(text) == Cardinality({ i \in 1..Len(text) : text[i] = ":" })

\* C24: a key with fewer than three ':'-separated parts cannot be parsed and is evicted
\* by the pass
C24_ShortKeyEvicted ==
    pc = "retention_done" =>
        \A key \in BeforePass : Colons(key) < 2 => key \in evicted

----------------------------------------------------------------------------
(* Properties of the filter across poll cycles *)

\* the filter returned the run of this key in an earlier cycle
ObservedBefore(key) == \E o \in observed : o.key = key /\ o.cycle < cycles

\* C28: a run that the filter returned in an earlier cycle and that is not in the
\* executed set is returned again by every later successful fetch of its workflow made
\* while the run is inside its 300-second window
C28_UnmarkedRunReturnedAgain ==
    pc = "run" /\ fetched =>
        \A i \in 1..Len(source[CurWorkflow]) :
            LET run == source[CurWorkflow][i]
                key == RunKey(CurRepo, CurWorkflow, run.id)
            IN  (/\ ObservedBefore(key)
                 /\ key \notin executed_runs
                 /\ InsideWindow(run, now))
                => \E j \in 1..Len(new_runs) : new_runs[j] = run

\* a run that was dispatched in an earlier cycle without being marked is returned again
C28_Witness ==
    /\ pc = "run"
    /\ fetched
    /\ \E j \in 1..Len(new_runs) :
        LET key == RunKey(CurRepo, CurWorkflow, new_runs[j].id)
        IN  /\ ObservedBefore(key)
            /\ dispatches[key] >= 1
            /\ key \notin executed_runs

----------------------------------------------------------------------------
(* Properties of a failed scan *)

\* C27: while a further repository is left to be scanned and the shutdown flag is not
\* set, nothing that happens in the scan of the current repository ends the scan of the
\* sequential cycle
C27_ScanGoesOnToNextRepository ==
    [][SequentialScan /\ ri < Len(repos) /\ running => SequentialScan']_vars

----------------------------------------------------------------------------
(* The state file: _save_state, _load_state and the marking of a run, with the *)
(* shapes the 'executed_runs' field can have on disk and in memory.            *)
(* Here executed_runs is a Python value [type, items], disk the content of the *)
(* state file and source.write what a write to the file does.                  *)

\* a Python set
SetValue(items) == [type |-> "set", items |-> items]

\* None, a dict, a str or an int: what json.load gives for null, an object, a string or
\* a number
RawValue(type) == [type |-> type, items |-> {}]

\* the file does not exist
MissingFile == [kind |-> "missing", field |-> "absent", items |-> <<>>]

\* the file is not valid JSON
CorruptFile == [kind |-> "corrupt", field |-> "absent", items |-> <<>>]

\* the file is valid JSON and not an object (an array, null, a number, a string)
OtherFile == [kind |-> "other", field |-> "absent", items |-> <<>>]

\* the file is a JSON object; field is the shape of its 'executed_runs' member
ObjectFile(field, items) == [kind |-> "object", field |-> field, items |-> items]

\* the type json.load gives for a JSON shape, and the shape json.dump writes for it
JsonShapes == {"null", "object", "string", "number"}

PyTypeOf(field) ==
    CASE field = "null" -> "None"
      [] field = "object" -> "dict"
      [] field = "string" -> "str"
      [] field = "number" -> "int"

JsonShapeOf(type) ==
    CASE type = "None" -> "null"
      [] type = "dict" -> "object"
      [] type = "str" -> "string"
      [] type = "int" -> "number"

\* set(list): the elements of a list
SetOfList(items) == { items[i] : i \in 1..Len(items) }

\* faulty variant: the last element is not written
ListsOfSet_Truncated(items) ==
    { SubSeq(list, 1, Len(list) - 1) :
        list \in { l \in [1..Cardinality(items) -> items] : SetOfList(l) = items } }

\* list(set): the elements once each, in an order the set chooses
ListsOfSet(items) == { list \in [1..Cardinality(items) -> items] : SetOfList(list) = items }

\* _load_state: the value of state['executed_runs'] it returns
LoadState(file) ==
    IF file.kind # "object"
    THEN SetValue({})       \* no file, or 'except Exception': the default state
    ELSE IF file.field = "array" THEN SetValue(SetOfList(file.items))
    ELSE IF file.field = "absent" THEN SetValue({})
    ELSE RawValue(PyTypeOf(file.field))

\* _save_state: the files json.dump can write for the value
SavedFiles(value) ==
    IF value.type = "set"
    THEN { ObjectFile("array", list) : list \in ListsOfSet(value.items) }
    ELSE { ObjectFile(JsonShapeOf(value.type), <<>>) }

\* 'self.state_data['executed_runs'].add(run_key)' raises: the value has no add method
AddRaises(value) == value.type # "set"

\* the keys of the explored state files
PersistKeys ==
    { RunKeyText("org/repo", 11, 101), RunKeyText("org/repo", 11, 102),
      RunKeyText("other/repo", 21, 201) }

\* the state files explored: none, invalid JSON, not an object, an object without the
\* field, with an array of at most two keys (one key twice included), and with the
\* field in each other JSON shape
PersistFiles ==
    {MissingFile, CorruptFile, OtherFile, ObjectFile("absent", <<>>)}
        \cup { ObjectFile(shape, <<>>) : shape \in JsonShapes }
        \cup { ObjectFile("array", <<>>) }
        \cup { ObjectFile("array", <<a>>) : a \in PersistKeys }
        \cup { ObjectFile("array", <<a, b>>) : a \in PersistKeys, b \in PersistKeys }

InitPersist ==
    /\ config \in { Config(EmptyMap, Definitions, <<>>, {}) }
    /\ source \in { [write |-> w] : w \in {"ok", "refused", "truncated"} }
    /\ InitSequential
    /\ \/ /\ pc = "save_state"
          /\ executed_runs \in { SetValue(s) : s \in SUBSET PersistKeys }
          /\ disk = MissingFile
       \/ /\ pc = "load_state"
          /\ executed_runs = SetValue({})
          /\ disk \in PersistFiles
    /\ dispatches = [k \in AllKeys(MainSource) |-> 0]
    /\ now = StartTime
    /\ running = TRUE
    /\ last_cleanup = 0
    /\ cycles = 0
    /\ ri = 1
    /\ wi = 1
    /\ new_runs = <<>>
    /\ fetched = FALSE
    /\ ni = 1
    /\ commands_to_execute = <<>>
    /\ repo_commands = <<>>
    /\ ci = 1
    /\ commands_executed = FALSE
    /\ ran = <<>>
    /\ result = NoneValue
    /\ raised = FALSE
    /\ last_behaviour = NoBehaviour
    /\ okSince = {}
    /\ evicted = {}
    /\ unresolved = {}
    /\ last_dispatch = NoDispatch
    /\ InitExtra

\* _save_state: the file is written, or open() fails and the file stays as it is, or
\* json.dump fails after open(..., 'w') has emptied the file
SaveStateFile ==
    /\ pc \in {"save_state", "loaded", "marked"}
    /\ \/ /\ source.write = "ok"
          /\ disk' \in SavedFiles(executed_runs)
       \/ /\ source.write = "refused"
          /\ disk' = disk
       \/ /\ source.write = "truncated"
          /\ disk' = CorruptFile
    /\ persisted' = IF saves = 0 THEN executed_runs.items ELSE persisted
    /\ saves' = saves + 1
    /\ pc' = CASE pc = "save_state" -> "load_state"
               [] pc = "loaded" -> "saved"
               [] pc = "marked" -> "saved_marked"
    /\ UNCHANGED <<envVars, observed, timeoutVars, parVars, waitVars,
                   now, running, executed_runs, last_cleanup, cycles,
                   scanVars, execVars, histVars>>

\* run(): 'self.state_data = self._load_state()' of the next start of the service
LoadStateFile ==
    /\ pc = "load_state"
    /\ executed_runs' = LoadState(disk)
    /\ pc' = "loaded"
    /\ UNCHANGED <<envVars, auxVars, timeoutVars, parVars, waitVars, saves,
                   now, running, disk, last_cleanup, cycles,
                   scanVars, execVars, histVars>>

\* _execute_commands: the marking of a run after its dispatch; raised when .add raises
MarkRun(key) ==
    /\ pc = "loaded"
    /\ IF AddRaises(executed_runs)
       THEN /\ raised' = TRUE
            /\ UNCHANGED executed_runs
       ELSE /\ raised' = FALSE
            /\ executed_runs' = SetValue(executed_runs.items \cup {key})
    /\ pc' = "marked"
    /\ UNCHANGED <<envVars, auxVars, timeoutVars, parVars, waitVars, saves,
                   now, running, disk, last_cleanup, cycles, scanVars,
                   commands_to_execute, repo_commands, ci, commands_executed, ran, result,
                   last_behaviour, histVars>>

NextPersist ==
    \/ SaveStateFile
    \/ LoadStateFile
    \/ \E key \in PersistKeys : MarkRun(key)

SpecPersist == InitPersist /\ [][NextPersist]_vars

----------------------------------------------------------------------------
(* Properties of the state file *)

\* C25: save, load, save with writes that succeed: the file holds exactly the keys of
\* the executed set that was saved first, each once, and so does the set in memory
C25_RoundTripKeepsExecutedSet ==
    (pc = "saved" /\ saves = 2 /\ source.write = "ok") =>
        /\ disk.kind = "object"
        /\ disk.field = "array"
        /\ { disk.items[i] : i \in 1..Len(disk.items) } = persisted
        /\ Len(disk.items) = Cardinality(persisted)
        /\ executed_runs.type = "set"
        /\ executed_runs.items = persisted

\* a set of two keys or more went through save, load and save
C25_Witness ==
    /\ pc = "saved"
    /\ saves = 2
    /\ source.write = "ok"
    /\ Cardinality(persisted) >= 2
    /\ disk.field = "array"

\* C26: whatever the shape of the executed_runs field in the file, the collection in
\* memory after _load_state is a set, and the marking of a run after it adds its key
C26_LoadedCollectionIsSet ==
    /\ pc = "loaded" => executed_runs.type = "set"
    /\ pc = "marked" => ~raised

----------------------------------------------------------------------------
(* One parallel cycle with failing pipelines: _monitor_single_repository    *)
(* with the listing of a workflow's runs failing and _execute_commands      *)
(* raising before its command loop.                                         *)

\* the legacy list, for the runs of branch main or of both branches: workflow 11 has one
\* or two runs to dispatch
ScanConfigs ==
    { Config(EmptyMap, Definitions, LegacyCommands, {"main"}),
      Config(EmptyMap, Definitions, LegacyCommands, {"main", "dev"}) }

InitScan ==
    /\ config \in ScanConfigs
    /\ source = MainSource
    /\ dispatches = [k \in AllKeys(MainSource) |-> 0]
    /\ pc = "loop"
    /\ InitCommon
    /\ InitPool

NextScan ==
    \/ StartParallelCycle
    \/ \E r \in RepoSet : WorkerStart(r)
    \/ \E r \in RepoSet : WorkerNextWorkflow(r)
    \/ \E r \in RepoSet : WorkerNextRun(r)
    \/ \E r \in RepoSet : WorkerAcquire(r)
    \/ \E r \in RepoSet : WorkerResolve(r)
    \/ \E r \in RepoSet : WorkerDispatchError(r)
    \/ \E r \in RepoSet : WorkerExecCommand(r)
    \/ \E r \in RepoSet : WorkerFinishCommands(r)
    \/ \E r \in RepoSet : WorkerFatalError(r)
    \/ \E r \in RepoSet : Collect(r)
    \/ AllCollected
    \/ SaveState
    \/ Signal

SpecScan == InitScan /\ [][NextScan]_vars

\* the scanner of r lists the runs of its current workflow
ListingStep(r) == workers[r].pc = "workflow" /\ workers'[r].pc = "run"

\* the dispatch of the scanner of r raises and the per-workflow handler takes over
DispatchRaised(r) == workers[r].pc = "resolve" /\ workers'[r].pc = "workflow"

\* the scanner of r is inside the per-workflow try block
InPipeline(r) == workers[r].pc \in {"run", "lock", "resolve", "exec"}

NoMarkNoDispatch == executed_runs' = executed_runs /\ dispatches' = dispatches

\* C31: a failure on one pipeline of a repository scan is caught.  A listing step
\* yields the filter's answer or, when the Run Source raises, no run at all, and
\* changes neither the executed set nor the dispatch counts; a scanner with no run to
\* dispatch goes on to the next pipeline; a dispatch that raises marks nothing, runs
\* nothing, frees the lock and sends the scanner to the next pipeline; no failure
\* inside a pipeline ends the scanner, and a scanner that returns True while the
\* service is running has gone through every pipeline.
C31_PipelineFailureIsSkipped ==
    [][\A r \in RepoSet :
        /\ ListingStep(r) =>
            /\ workers'[r].new_runs \in
                  { <<>>,
                    GetNewSuccessfulRuns(config, r, WorkerWorkflow(r),
                        source[WorkerWorkflow(r)], now, executed_runs, TRUE) }
            /\ GetNewSuccessfulRuns(config, r, WorkerWorkflow(r),
                   source[WorkerWorkflow(r)], now, executed_runs, FALSE) = <<>>
            /\ NoMarkNoDispatch
        /\ workers[r].pc = "run" /\ workers[r].new_runs = <<>> /\ workers'[r] # workers[r] =>
            /\ workers'[r].pc = "workflow"
            /\ workers'[r].wi = workers[r].wi + 1
            /\ workers'[r].returned
            /\ NoMarkNoDispatch
        /\ DispatchRaised(r) =>
            /\ NoMarkNoDispatch
            /\ lock' = NoHolder
            /\ workers'[r].wi = workers[r].wi + 1
            /\ workers'[r].returned
        /\ InPipeline(r) => workers'[r].pc # "done"
        /\ workers[r].pc = "workflow" /\ workers'[r].pc = "done" /\ workers'[r].returned =>
            workers[r].wi > Len(WorkflowsOf(r)) \/ ~running
      ]_vars

\* a running scanner has returned True in the first cycle although the fresh successful
\* run of its first pipeline, which the filter may have returned, was neither dispatched
\* nor marked: the pipeline failed and was skipped
C31_Witness ==
    /\ cycles = 1
    /\ running
    /\ workers["org/repo"].pc = "done"
    /\ workers["org/repo"].returned
    /\ workers["org/repo"].wi > Len(WorkflowsOf("org/repo"))
    /\ \E o \in observed : o.key = RunKey("org/repo", 11, 101)
    /\ dispatches[RunKey("org/repo", 11, 101)] = 0
    /\ RunKey("org/repo", 11, 101) \notin executed_runs

\* the keys of the runs of the workflow the scanner of r is at
PipelineKeys(r) ==
    { RunKey(r, WorkerWorkflow(r), source[WorkerWorkflow(r)][i].id) :
        i \in 1..Len(source[WorkerWorkflow(r)]) }

\* C31 as stated: a pipeline whose dispatch raises has had no dispatch and no run
\* marked executed in this cycle (SpecScan is one cycle from an empty executed set)
C31_FailedPipelineHasNoDispatch ==
    [][\A r \in RepoSet :
        DispatchRaised(r) =>
            \A k \in PipelineKeys(r) : dispatches'[k] = 0 /\ k \notin executed_runs'
      ]_vars

\* the runs of the listing that the filter did not return
DroppedKeys ==
    { RunKey(CurRepo, CurWorkflow, source[CurWorkflow][i].id) :
        i \in { j \in 1..Len(source[CurWorkflow]) :
                  ~\E k \in 1..Len(new_runs) : new_runs[k] = source[CurWorkflow][j] } }

\* C32: a call of _get_new_successful_runs leaves executed_runs as it was, whatever the
\* listing holds and whether or not the fetch succeeds
C32_FilterLeavesExecutedRuns ==
    [][pc = "filter" /\ pc' = "filtered" => executed_runs' = executed_runs]_vars

\* the filter has dropped a run of the listing that is not in the executed set
C32_Witness ==
    /\ pc = "filtered"
    /\ fetched
    /\ \E k \in DroppedKeys : k \notin executed_runs
    /\ new_runs # <<>>

----------------------------------------------------------------------------
(* Properties of storage failures, marking and retention over the cycles *)

C33_UnreadableFileGivesEmptySet ==
    [][pc = "load_state" /\ pc' = "loaded" /\ disk.kind \in {"corrupt", "other"} =>
            executed_runs' = SetValue({}) /\ ~raised']_vars

\* C34: a RunKey enters executed_runs only at the end of the dispatch of its own run and
\* only when a command of that dispatch ended with exit code 0; a dispatch whose commands
\* all failed, or had no text, leaves the run unmarked; such a run is returned again by
\* every later successful listing made while it is inside its window, and a dispatch
\* runs every command that has a text.
C34_MarkedOnlyAfterExitZero ==
    [][ /\ \A k \in executed_runs' \ executed_runs :
            /\ pc = "exec"
            /\ k = CurKey
            /\ SomeExitZero(ran)
        /\ pc = "exec" /\ pc' = "run" /\ ~SomeExitZero(ran) => CurKey \notin executed_runs'
        /\ pc = "exec" => NamesOf(ran) = NamesOf(WithText(commands_to_execute, ci - 1))
        /\ pc = "run" /\ fetched =>
            \A r \in SourceRuns(CurWorkflow) :
                ( /\ dispatches[KeyOfRun(CurWorkflow, r)] > 0
                  /\ KeyOfRun(CurWorkflow, r) \notin okSince
                  /\ IsSuccessful(r)
                  /\ ShouldMonitorBranch(config, r.head_branch)
                  /\ InsideWindow(r, now)
                  /\ ni = 1 )
                => r \in NewRuns
      ]_vars

\* the second dispatch of a run has run its command again, after a first dispatch in
\* which every command failed, and the run is still unmarked
C34_Witness ==
    /\ cycles = 2
    /\ pc = "exec"
    /\ ci > Len(commands_to_execute)
    /\ ran # <<>>
    /\ \A i \in 1..Len(ran) : Failed(ran[i])
    /\ dispatches[CurKey] = 2
    /\ CurKey \notin okSince
    /\ CurKey \notin executed_runs

\* the scanner of r hands a command to the runner in this step
WorkerCommandRunsNow(r) == Len(workers'[r].ran) > Len(workers[r].ran)

\* C35: on the pool at most one scanner at a time is in the loop over its commands, and
\* every command is run by the scanner that holds the dispatch lock, before and after
\* the command, while no other scanner is inside a dispatch
C35_OneCommandAtATime ==
    [][ /\ \A a, b \in RepoSet : CommandRunning(a) /\ CommandRunning(b) => a = b
        /\ \A r \in RepoSet :
            WorkerCommandRunsNow(r) =>
                /\ lock = r
                /\ lock' = r
                /\ \A o \in RepoSet \ {r} : ~InDispatch(o) /\ ~WorkerCommandRunsNow(o)
      ]_vars

\* the scanners of both repositories dispatch in the same cycle, one after the other: a
\* command of other/repo is running, the dispatch of org/repo's run is over and its
\* scanner is still at work
C35_Witness ==
    /\ cycles = 1
    /\ CommandRunning("other/repo")
    /\ lock = "other/repo"
    /\ dispatches[RunKey("org/repo", 11, 101)] = 1
    /\ workers["org/repo"].pc \in {"run", "workflow"}

\* C36 as stated: a retention pass removes from executed_runs no key of a run that the
\* Run Source still has and that is inside its 300-second window, whether or not the
\* lookup of the run succeeds
C36_RetentionKeepsFreshKeys ==
    [][pc = "cleanup" =>
        \A k \in executed_runs \ executed_runs' :
            ~InsideWindow(RunOfKey(source, k), now)]_vars

\* the step is the retention pass of run()
RetentionStep == pc = "cleanup" /\ pc' = "sleep"

\* the step ends a dispatch of the key: _execute_commands returns, on either path
DispatchEnds(k) ==
    \/ pc = "exec" /\ pc' = "run" /\ k = CurKey
    \/ \E r \in RepoSet :
        /\ workers[r].pc = "exec"
        /\ workers'[r].pc = "run"
        /\ k = WorkerKey(r)

\* C37: no step other than a retention pass removes a key from executed_runs, and a key
\* is added only by the step that ends the dispatch of its own run, one key at a time
C37_ExecutedRunsGrowsOutsideRetention ==
    [][ /\ ~RetentionStep => executed_runs \subseteq executed_runs'
        /\ \A k \in executed_runs' \ executed_runs : DispatchEnds(k)
        /\ Cardinality(executed_runs' \ executed_runs) <= 1
      ]_vars

\* the executed set has grown to the runs of both repositories over failed listings,
\* a scanner that returned False and a save that did not reach the file
C37_Witness ==
    /\ PoolScan
    /\ Cardinality(executed_runs) = 2
    /\ evicted = {}
    /\ disk # executed_runs
    /\ saves > 0 \/ cycles > 1
    /\ \E r \in Configured : workers[r].pc = "done" /\ ~workers[r].returned

\* positions of the orchestrator inside the scan of a cycle, on either path
ScanPositions == {"repo", "workflow", "run", "exec", "as_completed"}

\* C38 as stated: when the shutdown flag was set during the scan of a cycle, the main
\* loop stops only after that cycle has called _save_state (whether or not the write
\* succeeded)
C38_CycleSavesBeforeStop ==
    [][pc = "loop" /\ pc' = "stopped" /\ stop_pc \in ScanPositions => saves > 0]_vars

----------------------------------------------------------------------------
(* One cycle on either path under answers of the environment fixed          *)
(* beforehand: _monitor_workflows and _monitor_workflows_parallel for the    *)
(* same repositories, Run Source answers, process outcomes and state.        *)

EquivKeys == { RunKey("org/repo", 11, 101), RunKey("other/repo", 21, 201) }

EquivBehaviours ==
    { [kind |-> "exit", returncode |-> 0, stdout |-> "out"],
      [kind |-> "exit", returncode |-> 1, stdout |-> "out"],
      [kind |-> "permission", returncode |-> 0, stdout |-> ""] }

\* listing[w]: workflow.get_runs of w succeeds; command[k]: what the process of the
\* command of run k does; write: the write of the state file succeeds; fatal[r]: an
\* exception escapes the per-workflow handler at the first workflow of r; executed: the
\* executed set in memory and in the file when the cycle starts
AnswerSets ==
    [ kind : {"fixed"},
      listing : [AllWorkflows -> BOOLEAN],
      command : [EquivKeys -> EquivBehaviours],
      write : BOOLEAN,
      fatal : [RepoSet -> BOOLEAN],
      executed : SUBSET EquivKeys ]

InitEquiv ==
    /\ answers \in AnswerSets
    /\ config \in ParallelConfigs
    /\ source = MainSource
    /\ dispatches = [k \in AllKeys(MainSource) |-> 0]
    /\ repos = Repos
    /\ parallel_enabled \in BOOLEAN
    /\ max_workers = MaxWorkers
    /\ pc = "loop"
    /\ now = StartTime
    /\ running = TRUE
    /\ executed_runs = answers.executed
    /\ disk = answers.executed
    /\ last_cleanup = 0
    /\ cycles = 0
    /\ ri = 1
    /\ wi = 1
    /\ new_runs = <<>>
    /\ fetched = FALSE
    /\ ni = 1
    /\ commands_to_execute = <<>>
    /\ repo_commands = <<>>
    /\ ci = 1
    /\ commands_executed = FALSE
    /\ ran = <<>>
    /\ result = NoneValue
    /\ raised = FALSE
    /\ last_behaviour = NoBehaviour
    /\ okSince = {}
    /\ evicted = {}
    /\ unresolved = {}
    /\ last_dispatch = NoDispatch
    /\ InitNoCommand
    /\ InitNoWorkers
    /\ InitNoWait
    /\ InitNoHistory

\* the first cycle only
FirstCycle == LoopCheck /\ cycles = 0

FirstParallelCycle == StartParallelCycle /\ cycles = 0

FatalAtWorkflow == pc = "workflow" /\ wi = 1 /\ ri <= Len(repos) /\ answers.fatal[CurRepo]

WorkerFatalAtWorkflow(r) == workers[r].pc = "workflow" /\ workers[r].wi = 1 /\ answers.fatal[r]

AnsweredNextWorkflow ==
    /\ ~FatalAtWorkflow
    /\ NextWorkflow
    /\ pc' = "run" => fetched' = answers.listing[CurWorkflow]

AnsweredExecCommand ==
    /\ ExecCommand
    /\ commands_to_execute[ci].command # "" => last_behaviour' = answers.command[CurKey]

AnsweredScanFatalError == FatalAtWorkflow /\ ScanFatalError

AnsweredSaveState ==
    /\ SaveState
    /\ disk' = IF answers.write THEN executed_runs ELSE disk

AnsweredWorkerNextWorkflow(r) ==
    /\ ~WorkerFatalAtWorkflow(r)
    /\ WorkerNextWorkflow(r)
    /\ workers'[r].pc = "run" =>
            workers'[r].new_runs =
                GetNewSuccessfulRuns(config, r, WorkerWorkflow(r), source[WorkerWorkflow(r)],
                                     now, executed_runs, answers.listing[WorkerWorkflow(r)])

AnsweredWorkerExecCommand(r) ==
    /\ WorkerExecCommand(r)
    /\ Len(workers'[r].ran) > Len(workers[r].ran) =>
            LET entry == workers'[r].ran[Len(workers'[r].ran)]
                b == answers.command[WorkerKey(r)]
            IN  entry.kind = b.kind /\ entry.returncode = b.returncode
                    /\ entry.value = ExecuteSingleCommand(b)

AnsweredWorkerFatalError(r) == WorkerFatalAtWorkflow(r) /\ WorkerFatalError(r)

NextEquiv ==
    \/ FirstCycle
    \/ NextRepo
    \/ AnsweredNextWorkflow
    \/ NextRun
    \/ AnsweredExecCommand
    \/ FinishCommands
    \/ AnsweredScanFatalError
    \/ FirstParallelCycle
    \/ \E r \in RepoSet : WorkerStart(r)
    \/ \E r \in RepoSet : AnsweredWorkerNextWorkflow(r)
    \/ \E r \in RepoSet : WorkerNextRun(r)
    \/ \E r \in RepoSet : WorkerAcquire(r)
    \/ \E r \in RepoSet : WorkerResolve(r)
    \/ \E r \in RepoSet : AnsweredWorkerExecCommand(r)
    \/ \E r \in RepoSet : WorkerFinishCommands(r)
    \/ \E r \in RepoSet : AnsweredWorkerFatalError(r)
    \/ \E r \in RepoSet : Collect(r)
    \/ AllCollected
    \/ AnsweredSaveState

SpecEquiv == InitEquiv /\ [][NextEquiv]_vars

\* the runs a cycle dispatches under the answers: those of a repository whose scan meets
\* no escaping exception, listed without error and kept by the filter
ExpectedDispatched ==
    { k \in AllKeys(source) :
        /\ ~answers.fatal[k[1]]
        /\ answers.listing[k[2]]
        /\ \E i \in 1..Len(source[k[2]]) :
            /\ source[k[2]][i].id = k[3]
            /\ KeepRun(config, k[1], k[2], source[k[2]][i], now, answers.executed)
            /\ ~ReturnsEarly(CommandsToExecute(config, k[1], source[k[2]][i])) }

ExpectedExecuted ==
    answers.executed \cup
        { k \in ExpectedDispatched \cap EquivKeys :
            CommandSucceeded(ExecuteSingleCommand(answers.command[k])) }

ExpectedDisk == IF answers.write THEN ExpectedExecuted ELSE answers.executed

Dispatched == { k \in DOMAIN dispatches : dispatches[k] > 0 }

CycleOver == pc = "cleanup"

\* C39 as stated: at the end of a cycle the runs dispatched, the executed set in memory
\* and the state file are those the answers of the environment give, the same on the
\* sequential and on the parallel path, each run dispatched once
C39_SameOutcomeOnBothPaths ==
    CycleOver =>
        /\ Dispatched = ExpectedDispatched
        /\ \A k \in Dispatched : dispatches[k] = 1
        /\ executed_runs = ExpectedExecuted
        /\ disk = ExpectedDisk

\* the same when no exception escapes the per-workflow handler of any repository
C39_SameOutcomeWithoutEscapingException ==
    CycleOver /\ (\A r \in RepoSet : ~answers.fatal[r]) =>
        /\ Dispatched = ExpectedDispatched
        /\ \A k \in Dispatched : dispatches[k] = 1
        /\ executed_runs = ExpectedExecuted
        /\ disk = ExpectedDisk

====
